---- MODULE Spec2Model ----
(***************************************************************************)
(* State-machine model of the matchmyjobs ATS scoring engine               *)
(* (backend/engine/*.py).                                                  *)
(*                                                                         *)
(* Texts are modelled by the facts the code's regular expressions and      *)
(* substring tests read from them: a resume is a record of those facts     *)
(* (contact signals, headings, date tokens, the written date ranges of     *)
(* the experience section, the explicit "N years" statement, keyword       *)
(* groups), a job description likewise.  The external collaborators        *)
(* (LLM extraction, spaCy) are inputs drawn from bounded sets.             *)
(*                                                                         *)
(* Scores are exact rationals: a score s is held as the integer s * U      *)
(* (U units per point), and round(x, 1) yields an integer count of tenths. *)
(***************************************************************************)
EXTENDS Integers, Sequences, FiniteSets, TLC

VARIABLES
    call,        \* entry point under execution
    pc,          \* "called" (arguments bound) or "returned"
    resume,      \* facts of resume_text
    jd,          \* facts of jd_text
    extraction,  \* payload of the extraction: what extract_all returned, or,
                 \* in a call of extract_all, what the LLM's reply parses to
    nlp,         \* answers of the spaCy collaborator (similarity, skills)
    today,       \* datetime.now(): [y, m]
    llm,         \* replies of the LLM to the extraction and suggestion prompts
    fault,       \* step of run_analysis that raises, or None
    email,       \* request.email of a /score request, or None
    db,          \* the user of that email and the usage row of the month
    invoked,     \* what the /score handler called, in order
    inflight,    \* requests of one user being served at the same time, one
                 \* per server process: [route, pc, count, status_code]
    locals,      \* local variables of optimize_resume between its steps
    result       \* value returned by the entry point

vars == <<call, pc, resume, jd, extraction, nlp, today, llm, fault,
          email, db, invoked, inflight, locals, result>>

None == "none"

(***************************************************************************)
(* Bounds of the model                                                     *)
(***************************************************************************)
MaxSkills == 5      \* longest skill list returned by a collaborator
MaxRanges == 2      \* written date ranges in one resume
MaxYears  == 9      \* largest number in an "N years" statement
MaxSuggestions == 6 \* longest suggestion list the LLM returns

Max(a, b) == IF a >= b THEN a ELSE b
Min(a, b) == IF a <= b THEN a ELSE b
Abs(a)    == IF a >= 0 THEN a ELSE 0 - a

RECURSIVE Gcd(_, _)
Gcd(a, b) == IF b = 0 THEN a ELSE Gcd(b, a % b)

RECURSIVE LcmUpTo(_)
LcmUpTo(n) == IF n <= 1 THEN 1 ELSE (LcmUpTo(n - 1) * n) \div Gcd(LcmUpTo(n - 1), n)

\* Units per point: every quotient the scorers form (x / total_jd,
\* hits / 3, W * similarity in thousandths, hundredths of W) is an integer
\* of units: the least common multiple of 100 and 1..2 * MaxSkills.
U == (100 * LcmUpTo(2 * MaxSkills)) \div Gcd(100, LcmUpTo(2 * MaxSkills))

\* Python round(x, 1) of the exact value x (in units): count of tenths,
\* ties to the even tenth.
round1(x) ==
    LET q == (x * 10) \div U
        r == (x * 10) % U
    IN  IF 2 * r < U THEN q
        ELSE IF 2 * r > U THEN q + 1
        ELSE IF q % 2 = 0 THEN q ELSE q + 1

\* Python round(x) of the exact value num / den: ties to even.
round0(num, den) ==
    LET q == num \div den
        r == num % den
    IN  IF 2 * r < den THEN q
        ELSE IF 2 * r > den THEN q + 1
        ELSE IF q % 2 = 0 THEN q ELSE q + 1

(***************************************************************************)
(* engine/seniority.py                                                     *)
(***************************************************************************)
_LEVEL_RANK(level) ==
    CASE level = "Entry/Graduate"       -> 1
      [] level = "Mid-Level"            -> 2
      [] level = "Senior"               -> 3
      [] level = "Management/Architect" -> 4
      [] OTHER                          -> 2

_SEASON_MONTHS == [spring |-> 3, summer |-> 6, fall |-> 9, autumn |-> 9, winter |-> 12]
_QUARTER_MONTHS == [q1 |-> 1, q2 |-> 4, q3 |-> 7, q4 |-> 10]

(* An "N years" statement of a text: [kind, n, m].                         *)
(*   "none"      no statement                                              *)
(*   "over"      "over N years of experience"                              *)
(*   "exp"       "N years of experience" / "N+ years experience"           *)
(*   "minimum"   "minimum N years"                                         *)
(*   "atleast"   "at least N years"                                        *)
(*   "range"     "N-M years"                                               *)
(*   "range_exp" "N-M years of experience"                                 *)
(*   "plus"      "N+ years"                                                *)
NoYears == [kind |-> "none", n |-> 0, m |-> 0]

\* The ordered patterns; the first one that matches anywhere wins.  In
\* "N-M years of experience" the second pattern matches "M years of
\* experience" before the range pattern is tried.
_parse_years_from_text(stmt) ==
    CASE stmt.kind = "none"      -> 0
      [] stmt.kind = "over"      -> stmt.n
      [] stmt.kind = "exp"       -> stmt.n
      [] stmt.kind = "range_exp" -> stmt.m
      [] stmt.kind = "minimum"   -> stmt.n
      [] stmt.kind = "atleast"   -> stmt.n
      [] stmt.kind = "range"     -> stmt.n
      [] stmt.kind = "plus"      -> stmt.n
      [] OTHER                   -> 0

\* datetime(year, month, 1) for a season or quarter word.
_parse_season_or_quarter(form, month, year) ==
    IF form \in {"season", "quarter"} THEN [y |-> year, m |-> month]
    ELSE [y |-> year, m |-> 1]

(* A written date range: [form, sy, sm, ey, em, sentinel, now_word].       *)
(*   form      how both dates are written:                                 *)
(*             "dmy" 15 March 2022, "my" March 2022, "eu" 15/03/2022,      *)
(*             "us" 03/2022, "season" Spring 2022, "quarter" Q1 2022,      *)
(*             "year" 2022                                                 *)
(*   sentinel  TRUE when the end is Present / Current / Now                *)
(*   now_word  TRUE when that sentinel is the word Now                     *)
(* The literal text of a date is <<shape, year, month>>; the year-only     *)
(* literal carries month 0.                                                *)
Lit(shape, y, m) == IF shape = "year" THEN <<"year", y, 0>> ELSE <<shape, y, m>>
Sentinel == <<"present", 0, 0>>

\* The twelve (pattern, format_type) pairs of date_patterns, in order:
\* shape of group 1, shape of group 2 ("present" for the sentinel).
date_patterns == <<
    [start |-> "dmy",     end |-> "present", format |-> "day_month_year_present"],
    [start |-> "dmy",     end |-> "dmy",     format |-> "day_month_year"],
    [start |-> "my",      end |-> "present", format |-> "month_year_present"],
    [start |-> "my",      end |-> "my",      format |-> "month_year"],
    [start |-> "eu",      end |-> "present", format |-> "european_present"],
    [start |-> "eu",      end |-> "eu",      format |-> "european"],
    [start |-> "us",      end |-> "present", format |-> "us_present"],
    [start |-> "us",      end |-> "us",      format |-> "us"],
    [start |-> "seasonq", end |-> "present", format |-> "season_present"],
    [start |-> "seasonq", end |-> "seasonq", format |-> "season"],
    [start |-> "year",    end |-> "present", format |-> "year_present"],
    [start |-> "year",    end |-> "year",    format |-> "year_only"] >>

\* Group 1 is followed directly by the dash, so it matches a suffix of the
\* written start date: letters-then-year also matches the tail of a
\* day-month-year date and a season word, MM/YYYY the tail of DD/MM/YYYY,
\* and \b(\d{4}) the year that ends every form.
StartMatches(shape, form) ==
    CASE shape = "dmy"     -> form = "dmy"
      [] shape = "my"      -> form \in {"my", "dmy", "season"}
      [] shape = "eu"      -> form = "eu"
      [] shape = "us"      -> form \in {"us", "eu"}
      [] shape = "seasonq" -> form \in {"season", "quarter"}
      [] shape = "year"    -> TRUE
      [] OTHER             -> FALSE

\* Group 2 follows the dash directly, so it matches a prefix of the written
\* end date.
EndMatches(shape, r) ==
    CASE shape = "present" -> r.sentinel
      [] shape = "dmy"     -> ~r.sentinel /\ r.form = "dmy"
      [] shape = "my"      -> ~r.sentinel /\ r.form \in {"my", "season"}
      [] shape = "eu"      -> ~r.sentinel /\ r.form = "eu"
      [] shape = "us"      -> ~r.sentinel /\ r.form = "us"
      [] shape = "seasonq" -> ~r.sentinel /\ r.form \in {"season", "quarter"}
      [] shape = "year"    -> ~r.sentinel /\ r.form = "year"
      [] OTHER             -> FALSE

\* Literal text captured by a group of the given shape from a date
\* written in the given form.
Captured(shape, form, y, m) ==
    CASE shape = "my" /\ form = "season" -> Lit("season", y, m)
      [] shape = "seasonq"               -> Lit(form, y, m)
      [] OTHER                           -> Lit(shape, y, m)

\* Start or end date parsed from a captured literal under a format_type.
\* dateutil (fuzzy) fills a field the text does not give from the current
\* date: the month of a bare year, and of a season word it skips.
ParseDate(lit, format, now) ==
    IF format \in {"season_present", "season"}
    THEN _parse_season_or_quarter(lit[1], lit[3], lit[2])
    ELSE IF lit[1] \in {"year", "season"}
         THEN [y |-> lit[2], m |-> now.m]
         ELSE [y |-> lit[2], m |-> lit[3]]

\* months = (end.year - start.year) * 12 + (end.month - start.month)
MonthsBetween(start_date, end_date) ==
    (end_date.y - start_date.y) * 12 + (end_date.m - start_date.m)

\* One pattern applied to one written range: the accumulator after the
\* loop body (seen_ranges, total_months, ranges).
ApplyPattern(acc, p, r, now) ==
    IF ~(StartMatches(p.start, r.form) /\ EndMatches(p.end, r)) THEN acc
    ELSE
      LET start_str == Captured(p.start, r.form, r.sy, r.sm)
          end_str   == IF r.sentinel THEN Sentinel
                       ELSE Captured(p.end, r.form, r.ey, r.em)
          range_key == <<start_str, end_str>>
          start_date == ParseDate(start_str, p.format, now)
          end_date   == IF r.sentinel THEN now
                        ELSE ParseDate(end_str, p.format, now)
          months == MonthsBetween(start_date, end_date)
      IN  IF range_key \in acc.seen THEN acc
          ELSE IF 2 <= months /\ months <= 600
               THEN [seen   |-> acc.seen \cup {range_key},
                     total  |-> acc.total + months,
                     ranges |-> Append(acc.ranges,
                                  [start |-> start_str, end |-> end_str,
                                   months |-> months, format |-> p.format])]
               ELSE acc

RECURSIVE ApplyToRanges(_, _, _, _)
ApplyToRanges(acc, p, rs, now) ==
    IF rs = <<>> THEN acc
    ELSE ApplyToRanges(ApplyPattern(acc, p, Head(rs), now), p, Tail(rs), now)

RECURSIVE ApplyPatterns(_, _, _, _)
ApplyPatterns(acc, ps, rs, now) ==
    IF ps = <<>> THEN acc
    ELSE ApplyPatterns(ApplyToRanges(acc, Head(ps), rs, now), Tail(ps), rs, now)

(* A resume is a sequence of lines.  A line is                              *)
(*   [words, short, skills, ranges]:                                       *)
(*   words   the heading keywords the lower-cased line contains            *)
(*   short   len(line.strip()) < 50                                        *)
(*   skills  the skills whose name the line contains                       *)
(*   ranges  the date ranges written on the line, left to right            *)
(* Its other facts include word_count, len(resume_text.split()), and       *)
(* skill_freq, the whole-word occurrences of each skill name.              *)
AnyIn(line, keywords) == line.words \cap keywords # {}

RECURSIVE RangesOf(_)
RangesOf(lines) == IF lines = <<>> THEN <<>>
                   ELSE Head(lines).ranges \o RangesOf(Tail(lines))

EXP_START == {"professional experience", "work experience", "experience",
              "employment history"}
EXP_STOP  == {"education", "certifications", "projects", "skills", "awards",
              "publications"}

\* The loop that collects exp_section: a line with an experience heading
\* word switches collection on and is itself skipped; once on, the first
\* line with a stop word ends the loop.  state = <<in_experience, lines>>.
RECURSIVE CollectExp(_, _, _)
CollectExp(lines, in_experience, acc) ==
    IF lines = <<>> THEN acc
    ELSE IF AnyIn(Head(lines), EXP_START) THEN CollectExp(Tail(lines), TRUE, acc)
    ELSE IF in_experience /\ AnyIn(Head(lines), EXP_STOP) THEN acc
    ELSE IF in_experience THEN CollectExp(Tail(lines), TRUE, Append(acc, Head(lines)))
    ELSE CollectExp(Tail(lines), FALSE, acc)

\* The text the patterns run on: the collected lines, or the whole text
\* when nothing was collected.
exp_section(res) ==
    LET collected == CollectExp(res.lines, FALSE, <<>>)
    IN  IF collected = <<>> THEN RangesOf(res.lines) ELSE RangesOf(collected)

_parse_years_from_dates(res, now) ==
    LET Totals(acc) == [total_years |-> acc.total \div 12, ranges |-> acc.ranges,
                        total_months |-> acc.total]
    IN  Totals(ApplyPatterns([seen |-> {}, total |-> 0, ranges |-> <<>>],
                             date_patterns, exp_section(res), now))

\* Variant: one tolerance of 2 whatever the stated years.
calculate_total_experience_flat_tolerance(res, now) ==
    LET Reconcile(years_from_text, years_from_dates) ==
            LET diff      == Abs(years_from_text - years_from_dates)
                tolerance == 2
            IN  [total_years      |-> Max(years_from_text, years_from_dates),
                 years_from_text  |-> years_from_text,
                 years_from_dates |-> years_from_dates,
                 has_mismatch     |-> years_from_text > 0 /\ years_from_dates > 0
                                      /\ diff > tolerance]
    IN  Reconcile(_parse_years_from_text(res.years),
                  _parse_years_from_dates(res, now).total_years)

calculate_total_experience(res, now) ==
    LET Reconcile(years_from_text, years_from_dates) ==
            LET diff      == Abs(years_from_text - years_from_dates)
                tolerance == IF years_from_text < 5 THEN 1 ELSE 2
            IN  [total_years      |-> Max(years_from_text, years_from_dates),
                 years_from_text  |-> years_from_text,
                 years_from_dates |-> years_from_dates,
                 has_mismatch     |-> years_from_text > 0 /\ years_from_dates > 0
                                      /\ diff > tolerance]
    IN  Reconcile(_parse_years_from_text(res.years),
                  _parse_years_from_dates(res, now).total_years)

\* A keyword group is held as the number of its keywords that occur.
_any_kw(hits) == hits > 0

_detect_level(text_low, leadership_count, years) ==
    IF years >= 8 THEN "Management/Architect"
    ELSE IF years >= 5 THEN "Senior"
    ELSE IF 2 < years /\ years < 5 THEN "Mid-Level"
    ELSE IF 0 < years /\ years <= 2 THEN "Entry/Graduate"
    ELSE IF _any_kw(text_low.entry_kw) THEN "Entry/Graduate"
    ELSE IF _any_kw(text_low.mgmt_kw) THEN "Management/Architect"
    ELSE IF _any_kw(text_low.senior_kw) \/ leadership_count >= 3 THEN "Senior"
    ELSE "Mid-Level"

\* (lo, hi, level, min_years) of the explicit range patterns, in order.
range_patterns == <<
    <<5, 8, "Senior", 5>>,
    <<3, 6, "Mid-Level", 3>>,
    <<3, 5, "Mid-Level", 3>>,
    <<2, 5, "Mid-Level", 2>>,
    <<2, 4, "Mid-Level", 2>>,
    <<8, 10, "Management/Architect", 8>> >>

\* "N-M years" is the only statement a range pattern can match.
RangeHit(stmt) ==
    {i \in 1..Len(range_patterns) :
        /\ stmt.kind \in {"range", "range_exp"}
        /\ stmt.n = range_patterns[i][1]
        /\ stmt.m = range_patterns[i][2]}

detect_jd_level(jd_text) ==
    LET hit   == RangeHit(jd_text.years)
        years == _parse_years_from_text(jd_text.years)
    IN  IF hit # {}
        THEN LET i == CHOOSE k \in hit : \A l \in hit : k <= l
             IN  [level |-> range_patterns[i][3], years |-> range_patterns[i][4]]
        ELSE IF years >= 8 THEN [level |-> "Management/Architect", years |-> years]
        ELSE IF years >= 5 THEN [level |-> "Senior", years |-> years]
        ELSE IF 0 < years /\ years <= 2 THEN [level |-> "Entry/Graduate", years |-> years]
        ELSE IF years > 0 THEN [level |-> "Mid-Level", years |-> years]
        ELSE IF _any_kw(jd_text.mgmt_kw) THEN [level |-> "Management/Architect", years |-> 0]
        ELSE IF _any_kw(jd_text.senior_kw) THEN [level |-> "Senior", years |-> 0]
        ELSE IF _any_kw(jd_text.entry_kw) THEN [level |-> "Entry/Graduate", years |-> 0]
        ELSE [level |-> "Mid-Level", years |-> 0]

detect_resume_level(res, now) ==
    _detect_level(res, res.leadership, calculate_total_experience(res, now).total_years)

\* Variant: the status follows the level ranks alone, without the gate
\* on years.
build_seniority_audit_rank_only(res, jd_text, now) ==
    LET Audit(jd_level, res_level, exp_data) ==
            LET jd_rank  == _LEVEL_RANK(jd_level)
                res_rank == _LEVEL_RANK(res_level)
            IN  [status |-> IF res_rank >= jd_rank THEN "hit" ELSE "miss",
                 msg |-> IF res_rank > jd_rank THEN "Competitive Advantage"
                         ELSE IF res_rank = jd_rank THEN "Ideal Seniority Match"
                         ELSE "Experience Gap",
                 experience_audit |-> exp_data]
    IN  Audit(detect_jd_level(jd_text).level, detect_resume_level(res, now),
              calculate_total_experience(res, now))

build_seniority_audit(res, jd_text, now) ==
    LET Audit(jd_detected, res_level, exp_data) ==
            LET jd_level == jd_detected.level
                required_years == jd_detected.years
                jd_rank   == _LEVEL_RANK(jd_level)
                res_rank  == _LEVEL_RANK(res_level)
                resume_years == exp_data.total_years
                years_gap == required_years > 0 /\ resume_years < required_years
            IN  [status |-> IF years_gap THEN "miss"
                            ELSE IF res_rank > jd_rank THEN "hit"
                            ELSE IF res_rank = jd_rank THEN "hit"
                            ELSE "miss",
                 msg |-> IF years_gap THEN "Hard Gate Risk"
                         ELSE IF res_rank > jd_rank THEN "Competitive Advantage"
                         ELSE IF res_rank = jd_rank THEN "Ideal Seniority Match"
                         ELSE "Experience Gap",
                 experience_audit |-> exp_data]
    IN  Audit(detect_jd_level(jd_text), detect_resume_level(res, now),
              calculate_total_experience(res, now))

(***************************************************************************)
(* engine/skills.py                                                        *)
(***************************************************************************)
\* skill.lower() in s.lower() on the names of the skills: skill 3 is named
\* "java" and skill 2 "javascript"; no other name contains another.
NameIn(skill, s) == skill = s \/ (skill = 3 /\ s = 2)

\* Matches of \b<skill>\b in the lower-cased text, per skill.
keyword_frequency(res, skills) == [skill \in skills |-> res.skill_freq[skill]]

\* sorted(skill_mentions.items(), key=mentions, reverse=True)[:3]: the sort
\* is stable, so skills with equal mentions keep the order of the list
\* (a list of skills is held as a set, in the order of the numbers).
primary_skills(skills) ==
    LET skill_mentions(skill) == Cardinality({s \in skills : NameIn(skill, s)})
        Before(t, skill) == \/ skill_mentions(t) > skill_mentions(skill)
                            \/ (skill_mentions(t) = skill_mentions(skill) /\ t < skill)
    IN  {skill \in skills : Cardinality({t \in skills : Before(t, skill)}) < 3}

detect_keyword_stuffing(res, skills, threshold) ==
    LET word_count == res.word_count
        adjusted_threshold == Max(threshold, word_count \div 120)
        freq == keyword_frequency(res, skills)
    IN  {skill \in skills :
            /\ freq[skill] >= adjusted_threshold
            /\ (skill \notin primary_skills(skills) \/ freq[skill] > 12)}

(***************************************************************************)
(* engine/diagnostics.py                                                   *)
(***************************************************************************)
Status(ok) == IF ok THEN "hit" ELSE "miss"

\* Substring tests on the whole lower-cased text.
TextHas(res, keywords) == \E i \in 1..Len(res.lines) : AnyIn(res.lines[i], keywords)

\* The variants of each category, reduced to the shortest substrings.
_STANDARD_HEADINGS ==
    [summary    |-> {"summary", "profile", "objective"},
     experience |-> {"experience", "employment history", "work history",
                     "career history"},
     education  |-> {"education", "academic background", "academic history",
                     "qualifications", "degrees"},
     skills     |-> {"skills", "core competencies", "areas of expertise",
                     "competencies"}]

_NONSTANDARD_HEADINGS ==
    {"career highlights", "what i bring", "why hire me", "my journey",
     "career story", "professional journey", "achievements overview",
     "value proposition"}

_DEGREE_KEYWORDS ==
    {"bachelor", "b.s.", "b.a.", "bs ", "ba ", "master", "m.s.", "m.a.", "mba",
     "phd", "ph.d", "doctorate", "associate degree", "a.s.", "a.a.", "degree",
     "university", "college", "graduated"}

check_contact(res) ==
    [location         |-> Status(res.location \in {"city_state", "city_in_header"}),
     contact_channels |-> Status(res.email /\ res.phone),
     linkedin         |-> Status(res.linkedin \in {"url", "shorthand"})]

check_section_headings(res) ==
    LET all_std == \A c \in DOMAIN _STANDARD_HEADINGS :
                       TextHas(res, _STANDARD_HEADINGS[c])
        has_nonstandard == TextHas(res, _NONSTANDARD_HEADINGS)
    IN  Status(all_std /\ ~has_nonstandard)

\* Matches of _DATE_RE in one written date: DD/MM/YYYY gives two (DD/MM
\* and the year), every other form one.
DateTokens(r) ==
    LET per == IF r.form = "eu" THEN 2 ELSE 1
    IN  IF r.sentinel THEN per ELSE 2 * per

RECURSIVE SumTokens(_)
SumTokens(rs) == IF rs = <<>> THEN 0 ELSE DateTokens(Head(rs)) + SumTokens(Tail(rs))

check_dates(res) ==
    LET count == SumTokens(RangesOf(res.lines)) + res.extra_dates
    IN  Status(count >= 2)

check_education(res, jd_text) ==
    LET has_edu       == res.degree_words \cap _DEGREE_KEYWORDS # {}
        edu_required  == jd_text.edu_required
        edu_preferred == jd_text.edu_preferred
    IN  IF edu_required /\ ~has_edu THEN "miss"
        ELSE IF edu_required /\ has_edu THEN "hit"
        ELSE IF edu_preferred /\ has_edu THEN "hit"
        ELSE IF ~has_edu THEN "miss"
        ELSE "hit"

\* Matches of _METRIC_RE.
check_quantified_impact(res) ==
    LET count == res.metrics.common + res.metrics.people + res.metrics.times
    IN  [status |-> Status(count >= 3), count |-> count]

\* Least index in from..to that belongs to S, or 0.
FirstIn(S, from, to) ==
    LET C == {k \in S : from <= k /\ k <= to}
    IN  IF C = {} THEN 0 ELSE CHOOSE k \in C : \A l \in C : k <= l

\* Skills named in lines[from..to] (1-based, inclusive).
SkillsIn(lines, from, to) ==
    UNION {lines[i].skills : i \in {k \in 1..Len(lines) : from <= k /\ k <= to}}

SUMMARY_START == {"professional summary", "summary", "profile", "objective"}
SUMMARY_STOP  == {"experience", "work history", "employment", "education",
                  "skills", "competencies", "certifications"}
PLACEMENT_EXP_STOP == {"education", "certifications", "awards", "publications"}

\* Python indices are 0-based: line number k below is lines[k - 1] there.
check_keyword_placement(res, jd_skills) ==
    LET lines == res.lines
        n     == Len(lines)
        IsSummary == {k \in 1..n : AnyIn(lines[k], SUMMARY_START)}
        IsSumStop == {k \in 1..n : AnyIn(lines[k], SUMMARY_STOP) /\ lines[k].short}
        IsExp     == {k \in 1..n : AnyIn(lines[k], EXP_START)}
        IsExpStop == {k \in 1..n : AnyIn(lines[k], PLACEMENT_EXP_STOP) /\ lines[k].short}
        s_start == FirstIn(IsSummary, 1, n)
        \* range(i + 1, min(i + 30, len(lines))), then the default i + 15
        s_stop  == FirstIn(IsSumStop, s_start + 1, Min(s_start + 29, n))
        s_last  == IF s_stop # 0 THEN s_stop - 1 ELSE Min(s_start + 14, n)
        e_start == FirstIn(IsExp, 1, n)
        e_stop  == FirstIn(IsExpStop, e_start + 1, n)
        e_last  == IF e_stop # 0 THEN e_stop - 1 ELSE n
        summary_text == IF s_start = 0 THEN {} ELSE SkillsIn(lines, s_start, s_last)
        exp_text     == IF e_start = 0 THEN {} ELSE SkillsIn(lines, e_start, e_last)
        skills_in_summary == Cardinality(jd_skills \cap summary_text)
        skills_in_exp     == Cardinality(jd_skills \cap exp_text)
    IN  [status       |-> Status(skills_in_summary >= 3 \/ skills_in_exp >= 5),
         summary_hits |-> skills_in_summary,
         exp_hits     |-> skills_in_exp]

\* The message names stuffed_skills[0] and len(stuffed_skills) - 1.
check_keyword_stuffing(stuffed_skills) ==
    IF stuffed_skills # {}
    THEN [status |-> "miss",
          first  |-> CHOOSE k \in stuffed_skills : \A l \in stuffed_skills : k <= l,
          others |-> Cardinality(stuffed_skills) - 1]
    ELSE [status |-> "hit", first |-> 0, others |-> 0]

(***************************************************************************)
(* engine/ai_parser.py, engine/ats_suggestions.py                          *)
(*                                                                         *)
(* An extraction is a record of the payload's fields the engine reads;     *)
(* `lists` gives, for each list field, whether the payload holds a list    *)
(* ("list"), null ("null") or no such key ("absent").  A reply of the LLM  *)
(* to the extraction prompt is [raises] (the call or json.loads raised)    *)
(* with the payload it parses to; a reply to the suggestions prompt is     *)
(* [raises, suggestions].  A suggestion is [area, priority, category].     *)
(***************************************************************************)
ListFields ==
    {"jd_required_skills", "jd_preferred_skills", "jd_responsibilities",
     "resume_skills", "matched_skills", "missing_skills", "bonus_skills",
     "extra_skills"}

AllLists == [f \in ListFields |-> "list"]

_empty_extraction ==
    [matched_skills |-> {}, missing_skills |-> {}, jd_required_skills |-> {},
     required_years |-> 0, education_required |-> "none",
     seniority_level |-> "mid", lists |-> AllLists]

\* synonym_skills: the skills the synonym table and the phrase patterns
\* find in a text.
_semantic_fallback(jd_text, res) ==
    LET jd_required == jd_text.synonym_skills
        matched == jd_required \cap res.synonym_skills
        missing == jd_required \ res.synonym_skills
    IN  [_empty_extraction EXCEPT !.jd_required_skills = jd_required,
                                  !.matched_skills = matched,
                                  !.missing_skills = missing]

\* The log call takes len(parsed.get("matched_skills", [])) and the same
\* of missing_skills inside the try block: a null there raises.
extract_all(jd_text, res, parsed, reply) ==
    IF reply.raises THEN _semantic_fallback(jd_text, res)
    ELSE IF \/ parsed.lists["matched_skills"] = "null"
            \/ parsed.lists["missing_skills"] = "null"
         THEN _semantic_fallback(jd_text, res)
    ELSE parsed

Suggestion(area, priority, category) ==
    [area |-> area, priority |-> priority, category |-> category]

\* weak_areas is held as the set of the checks that added an entry.
_generate_fallback_suggestions(ext, weak_areas) ==
    LET missing_skills == ext.missing_skills
        matched_skills == ext.matched_skills
        s1 == IF missing_skills # {}
              THEN <<Suggestion("Skills Section", "high", None)>> ELSE <<>>
        s2 == IF "placement" \in weak_areas /\ matched_skills # {}
              THEN <<Suggestion("Professional Summary", "high", None)>> ELSE <<>>
        s3 == IF "impact" \in weak_areas
              THEN <<Suggestion("Experience Bullets", "high", None)>> ELSE <<>>
        s4 == IF "headings" \in weak_areas
              THEN <<Suggestion("Document Structure", "medium", None)>> ELSE <<>>
        s5 == <<Suggestion("Overall Resume", "medium", None)>>
        suggestions == s1 \o s2 \o s3 \o s4 \o s5
    IN  SubSeq(suggestions, 1, Min(5, Len(suggestions)))

generate_suggestions(ext, weak_areas, reply) ==
    IF reply.raises THEN _generate_fallback_suggestions(ext, weak_areas)
    ELSE IF reply.suggestions = <<>>
         THEN _generate_fallback_suggestions(ext, weak_areas)
    ELSE reply.suggestions

generate_fallback_suggestions ==
    <<Suggestion("Skills & Keywords", "high", "keyword_match"),
      Suggestion("Professional Summary", "high", "keyword_placement"),
      Suggestion("Experience Bullets", "medium", "impact")>>

(***************************************************************************)
(* engine/scorer.py                                                        *)
(***************************************************************************)
W_KEYWORD_OVERLAP == 30
W_SEMANTIC        == 10
W_PLACEMENT       == 10
W_EXPERIENCE      == 10
W_EDUCATION       == 10
W_STRUCTURE       == 3
W_FORMATTING      == 2
W_IMPACT          == 5
W_CONTACT         == 5
W_SENIORITY       == 5

\* w * num / den points, in units.
Pts(w, num, den) ==
    LET g == Gcd(w * U, den)
    IN  (((w * U) \div g) * num) \div (den \div g)

\* (part / total * 100) if total else 0, as the fraction part / total of
\* one point (in units); the caller's "/ 100 * W" is Pts.
_pct(part, total) == IF total # 0 THEN (100 * U * part) \div total ELSE 0

Tier(final_score) ==
    IF final_score >= 850 THEN "excellent"
    ELSE IF final_score >= 700 THEN "good"
    ELSE IF final_score >= 550 THEN "fair"
    ELSE IF final_score >= 400 THEN "borderline"
    ELSE "poor"

\* Step 2: the skills the scoring works on (the extraction's, or spaCy's
\* when the extraction has neither matched nor missing skills).
Skills(ext, sp) ==
    IF ext.matched_skills = {} /\ ext.missing_skills = {}
    THEN [hits          |-> sp.jd_skills \cap sp.res_skills,
          missing       |-> sp.jd_skills \ sp.res_skills,
          all_jd_skills |-> sp.jd_skills]
    ELSE [hits          |-> ext.matched_skills,
          missing       |-> ext.missing_skills,
          all_jd_skills |-> ext.jd_required_skills]

\* Variant: the denominator is the required-skill count alone.
total_jd_required_only(sk) ==
    Max(Cardinality(sk.all_jd_skills), 1)

total_jd(sk) ==
    Max(Max(Cardinality(sk.all_jd_skills),
            Cardinality(sk.hits) + Cardinality(sk.missing)), 1)

keyword_score(sk) ==
    (_pct(Cardinality(sk.hits), total_jd(sk)) \div 100) * W_KEYWORD_OVERLAP

\* similarity is held in thousandths.
semantic_score(sp) == Pts(W_SEMANTIC, sp.similarity, 1000)

placement_score(placement) ==
    IF placement.status = "hit" THEN Pts(W_PLACEMENT, 1, 1)
    ELSE IF placement.summary_hits > 0 THEN Pts(W_PLACEMENT, 4, 10)
    ELSE 0

structure_score(headings) == IF headings = "hit" THEN Pts(W_STRUCTURE, 1, 1) ELSE 0

formatting_score(dates, headings) ==
    IF dates = "hit" THEN Pts(W_FORMATTING, 1, 1)
    ELSE IF headings = "hit" THEN Pts(W_FORMATTING, 5, 10)
    ELSE 0

seniority_score(seniority) ==
    IF seniority.status = "hit" THEN Pts(W_SENIORITY, 1, 1)
    ELSE Pts(W_SENIORITY, 3, 10)

impact_score(impact) ==
    IF impact.status = "hit" THEN Pts(W_IMPACT, 1, 1)
    ELSE IF impact.count >= 1 THEN Pts(W_IMPACT, 4, 10)
    ELSE 0

education_score(education) == IF education = "hit" THEN Pts(W_EDUCATION, 1, 1) ELSE 0

contact_score(contact) ==
    LET contact_hits == Cardinality({c \in DOMAIN contact : contact[c] = "hit"})
    IN  Pts(W_CONTACT, contact_hits, Cardinality(DOMAIN contact))

exp_score(required_years, resume_years) ==
    IF required_years = 0 THEN Pts(W_EXPERIENCE, 1, 1)
    ELSE LET gap == Max(0, required_years - resume_years)
         IN  IF gap = 0 THEN Pts(W_EXPERIENCE, 1, 1)
             ELSE IF gap = 1 THEN Pts(W_EXPERIENCE, 75, 100)
             ELSE IF gap = 2 THEN Pts(W_EXPERIENCE, 45, 100)
             ELSE IF gap = 3 THEN Pts(W_EXPERIENCE, 20, 100)
             ELSE 0

\* The component scores of step 4, in units, before any rounding.
Components(res, jd_text, ext, sp, now) ==
    LET Scores(sk, headings, dates, seniority) ==
            [keyword   |-> keyword_score(sk),
             semantic  |-> semantic_score(sp),
             placement |-> placement_score(check_keyword_placement(res, sk.hits)),
             structure |-> structure_score(headings),
             formatting |-> formatting_score(dates, headings),
             seniority |-> seniority_score(seniority),
             impact    |-> impact_score(check_quantified_impact(res)),
             education |-> education_score(check_education(res, jd_text)),
             contact   |-> contact_score(check_contact(res)),
             exp       |-> exp_score(ext.required_years,
                                     seniority.experience_audit.total_years)]
    IN  Scores(Skills(ext, sp), check_section_headings(res), check_dates(res),
               build_seniority_audit(res, jd_text, now))

\* The sum that is rounded and clamped into final_score.
RawTotal(c) ==
    c.keyword + c.semantic + c.placement + c.structure + c.formatting
    + c.seniority + c.impact + c.education + c.contact + c.exp

final_score(c) == Max(0, Min(1000, round1(RawTotal(c))))

score_breakdown(c) ==
    [keyword_overlap   |-> round1(c.keyword),
     keyword_placement |-> round1(Min(c.placement + c.semantic, 20 * U)),
     experience        |-> round1(c.exp),
     education         |-> round1(c.education),
     formatting        |-> round1(c.formatting),
     contact           |-> round1(c.contact),
     structure         |-> round1(c.structure),
     impact            |-> round1(c.impact),
     seniority         |-> round1(c.seniority)]

\* Step 7: the checks whose miss adds an entry to weak_areas.
weak_areas(res, jd_text, sk, now) ==
    {a \in {"placement", "impact", "seniority", "headings", "stuffing", "missing"} :
        CASE a = "placement" -> check_keyword_placement(res, sk.hits).status = "miss"
          [] a = "impact"    -> check_quantified_impact(res).status = "miss"
          [] a = "seniority" -> build_seniority_audit(res, jd_text, now).status = "miss"
          [] a = "headings"  -> check_section_headings(res) = "miss"
          [] a = "stuffing"  ->
                check_keyword_stuffing(detect_keyword_stuffing(res, sk.hits, 5)).status
                    = "miss"
          [] OTHER           -> Cardinality(sk.missing) > 3}

\* Step 8.
Suggestions(res, jd_text, ext, sk, now, reply) ==
    LET OrFallback(suggestions) ==
            IF suggestions = <<>> THEN generate_fallback_suggestions
            ELSE suggestions
    IN  OrFallback(generate_suggestions(ext, weak_areas(res, jd_text, sk, now), reply))

\* Variant: the error response carries no suggestions.
_generate_fallback_response_no_suggestions ==
    [score           |-> 0,
     tier            |-> "error",
     seniority_match |-> "unknown",
     recent_hits     |-> {},
     missing         |-> {},
     audit           |-> <<>>,
     score_breakdown |-> [keyword_overlap |-> 0, keyword_placement |-> 0,
                          experience |-> 0, education |-> 0, formatting |-> 0,
                          contact |-> 0, structure |-> 0, impact |-> 0,
                          seniority |-> 0],
     suggestions     |-> <<>>]

_generate_fallback_response ==
    [score           |-> 0,
     tier            |-> "error",
     seniority_match |-> "unknown",
     recent_hits     |-> {},
     missing         |-> {},
     audit           |-> <<>>,
     score_breakdown |-> [keyword_overlap |-> 0, keyword_placement |-> 0,
                          experience |-> 0, education |-> 0, formatting |-> 0,
                          contact |-> 0, structure |-> 0, impact |-> 0,
                          seniority |-> 0],
     suggestions     |-> generate_fallback_suggestions]

\* The value run_analysis returns; scores are counts of tenths.  `flt`
\* names the step of the try block that raises, if one does.
run_analysis(res, jd_text, ext, sp, now, reply, flt) ==
    LET Response(c, sk) ==
            [score           |-> final_score(c),
             tier            |-> Tier(final_score(c)),
             seniority_match |-> detect_resume_level(res, now),
             recent_hits     |-> sk.hits,
             missing         |-> sk.missing,
             audit           |-> [seniority |-> build_seniority_audit(res, jd_text, now),
                                  education |-> check_education(res, jd_text),
                                  contact   |-> check_contact(res),
                                  headings  |-> check_section_headings(res),
                                  dates     |-> check_dates(res),
                                  impact    |-> check_quantified_impact(res),
                                  placement |-> check_keyword_placement(res, sk.hits),
                                  stuffing  |-> check_keyword_stuffing(
                                      detect_keyword_stuffing(res, sk.hits, 5))],
             score_breakdown |-> score_breakdown(c),
             suggestions     |-> Suggestions(res, jd_text, ext, sk, now, reply)]
    IN  IF flt # None THEN _generate_fallback_response
        ELSE Response(Components(res, jd_text, ext, sp, now), Skills(ext, sp))

(***************************************************************************)
(* engine/ats_scorer.py                                                    *)
(* Scores here are counts of hundredths of a point.                        *)
(***************************************************************************)
score_keyword_match(matched_skills, required_skills) ==
    LET total_required == Cardinality(required_skills)
        total_matched  == Cardinality(matched_skills)
    IN  IF total_required = 0 THEN [score |-> 0, tier |-> "unknown"]
        \* match_rate >= 0.80, 0.60, 0.40 with match_rate = matched / required
        ELSE IF 100 * total_matched >= 80 * total_required
             THEN [score |-> 4000, tier |-> "critical"]
        ELSE IF 100 * total_matched >= 60 * total_required
             THEN [score |-> 3000, tier |-> "high"]
        ELSE IF 100 * total_matched >= 40 * total_required
             THEN [score |-> 2000, tier |-> "medium"]
        ELSE [score |-> 1000, tier |-> "low"]

\* (start, end) as 1-based inclusive line numbers, or <<0, 0>> for None.
_find_section_range(lines, keywords) ==
    LET n == Len(lines)
        all_sections == {"summary", "experience", "education", "skills",
                         "certifications", "projects"}
        IsStart == {k \in 1..n : AnyIn(lines[k], keywords) /\ lines[k].short}
        IsEnd   == {k \in 1..n : AnyIn(lines[k], all_sections) /\ lines[k].short}
        start   == FirstIn(IsStart, 1, n)
        stop    == FirstIn(IsEnd, start + 1, n)
    IN  IF start = 0 THEN <<0, 0>>
        ELSE <<start, IF stop # 0 THEN stop - 1 ELSE n>>

score_keyword_placement(res, matched_skills) ==
    LET lines == res.lines
        summary_range    == _find_section_range(lines, {"summary", "profile", "objective"})
        experience_range == _find_section_range(lines, {"experience", "work history", "employment"})
        skills_range     == _find_section_range(lines, {"skills", "technical skills", "competencies"})
        Text(rg) == IF rg = <<0, 0>> THEN {} ELSE SkillsIn(lines, rg[1], rg[2])
        summary_hits    == Cardinality(matched_skills \cap Text(summary_range))
        experience_hits == Cardinality(matched_skills \cap Text(experience_range))
        skills_hits     == Cardinality(matched_skills \cap Text(skills_range))
        weighted_score  == Min(summary_hits * 5, 15) + Min(experience_hits * 3, 12)
                           + Min(skills_hits * 1, 8)
    IN  IF matched_skills = {}
        THEN [score |-> 0, summary_hits |-> 0, experience_hits |-> 0, skills_hits |-> 0]
        \* round(weighted_score * (25 / 35), 1)
        ELSE [score |-> 10 * round0(weighted_score * 250, 35),
              summary_hits |-> summary_hits,
              experience_hits |-> experience_hits,
              skills_hits |-> skills_hits]

\* Years one written range adds in _calculate_total_years.
\*   date_range_pattern: "Mon YYYY - Present|Current|Mon YYYY"
\*   year_range_pattern: "YYYY - Present|Current|YYYY"
\* Both lists of matches are added up.  For a year_range_pattern match
\* (start, end) the code reads the start year from match[1], the end.
AtsRangeYears(r, current_year) ==
    LET present   == r.sentinel /\ ~r.now_word
        by_month  == r.form \in {"my", "dmy"} /\ (present \/ (~r.sentinel /\ r.form = "my"))
        by_year   == present \/ (~r.sentinel /\ r.form = "year")
        Span(start_year, end_year) ==
            IF start_year <= end_year /\ end_year <= current_year + 1
            THEN end_year - start_year ELSE 0
        m_years   == IF ~by_month THEN 0
                     ELSE Span(r.sy, IF present THEN current_year ELSE r.ey)
        y_years   == IF ~by_year THEN 0
                     ELSE IF present THEN Span(r.sy, current_year)
                     ELSE Span(r.ey, r.ey)
    IN  m_years + y_years

RECURSIVE SumAtsYears(_, _)
SumAtsYears(rs, current_year) ==
    IF rs = <<>> THEN 0
    ELSE AtsRangeYears(Head(rs), current_year) + SumAtsYears(Tail(rs), current_year)

_calculate_total_years(res, now) == Max(0, SumAtsYears(RangesOf(res.lines), now.y))

score_experience_match(res, required_years, now) ==
    LET years_detected == _calculate_total_years(res, now)
    IN  IF required_years = 0 THEN [score |-> 1500, years_detected |-> years_detected]
        ELSE IF years_detected >= required_years
             THEN [score |-> 1500, years_detected |-> years_detected]
        ELSE IF years_detected >= required_years - 1
             THEN [score |-> 1000, years_detected |-> years_detected]
        ELSE IF years_detected >= required_years - 2
             THEN [score |-> 500, years_detected |-> years_detected]
        ELSE [score |-> 0, years_detected |-> years_detected]

ATS_DEGREE_KEYWORDS ==
    {"bachelor", "b.s.", "b.a.", "master", "m.s.", "m.a.", "mba", "phd",
     "ph.d", "doctorate", "associate", "university", "college"}

score_education(res, ext) ==
    LET education_required == ext.education_required
        has_education == res.degree_words \cap ATS_DEGREE_KEYWORDS # {}
    IN  IF education_required \in {"bachelor", "master", "phd"}
        THEN [score |-> IF has_education THEN 1000 ELSE 0,
              required |-> education_required, has_degree |-> has_education]
        ELSE [score |-> 1000,
              required |-> education_required, has_degree |-> has_education]

score_formatting(res) ==
    LET sections_found ==
            Cardinality({sec \in {"experience", "education", "skills"} : TextHas(res, {sec})})
        s1 == IF sections_found >= 3 THEN 500 ELSE IF sections_found >= 2 THEN 300 ELSE 0
        s2 == IF res.email /\ res.phone THEN 300
              ELSE IF res.email \/ res.phone THEN 100 ELSE 0
        metrics == res.metrics.common
        s3 == IF metrics >= 5 THEN 200 ELSE IF metrics >= 2 THEN 100 ELSE 0
    IN  [score |-> s1 + s2 + s3, metrics_found |-> metrics]

score_contact_info(res) ==
    LET has_location == res.location \in {"city_state", "word_caps"}
        has_linkedin == res.linkedin = "url"
        base  == (IF res.email THEN 200 ELSE 0) + (IF res.phone THEN 200 ELSE 0)
                 + (IF has_location THEN 100 ELSE 0)
        score == IF has_linkedin THEN Min(base + 50, 500) ELSE base
    IN  [score |-> Min(score, 500)]

score_document_structure(res) ==
    LET required_sections ==
            [experience |-> {"experience", "work experience",
                             "professional experience", "employment"},
             education  |-> {"education", "academic", "qualifications"},
             skills     |-> {"skills", "technical skills", "competencies"}]
        sections_found ==
            Cardinality({t \in DOMAIN required_sections :
                            TextHas(res, required_sections[t])})
        s1 == IF sections_found = 3 THEN 300 ELSE IF sections_found = 2 THEN 200 ELSE 100
        \* \d{4}, a month abbreviation anywhere (also inside a word such as
        \* "summary"), or MM/YYYY
        dates_found == \/ RangesOf(res.lines) # <<>>
                       \/ res.extra_dates > 0
                       \/ res.phone
                       \/ res.month_letters
                       \/ TextHas(res, {"summary"})
    IN  [score |-> Min(s1 + (IF dates_found THEN 200 ELSE 0), 500),
         sections_found |-> sections_found, has_dates |-> dates_found]

score_quantified_impact(res) ==
    LET metrics_found == res.metrics.common + res.metrics.people + res.metrics.impact_only
    IN  [score |-> IF metrics_found >= 8 THEN 500
                   ELSE IF metrics_found >= 5 THEN 400
                   ELSE IF metrics_found >= 3 THEN 250
                   ELSE IF metrics_found >= 1 THEN 100
                   ELSE 0,
         metrics_count |-> metrics_found]

score_seniority_match(res, jd_seniority) ==
    LET resume_level == IF res.senior_indicators >= 3 THEN "senior"
                        ELSE IF res.entry_indicators >= 2 THEN "entry"
                        ELSE "mid"
        jd_level == IF jd_seniority = "" THEN "mid" ELSE jd_seniority
    IN  [score |-> IF resume_level = jd_level THEN 500
                   ELSE IF (resume_level = "senior" /\ jd_level = "mid")
                           \/ (resume_level = "mid" /\ jd_level = "entry") THEN 400
                   ELSE IF (resume_level = "mid" /\ jd_level = "senior")
                           \/ (resume_level = "entry" /\ jd_level = "mid") THEN 200
                   ELSE 100,
         resume_level |-> resume_level, jd_level |-> jd_level]

\* The nine component values as calculate_ats_score adds them, in
\* hundredths: keyword_match / 40 * 30 and placement / 25 * 20 rescaled.
AtsTerms(b) ==
    [keyword_match      |-> (b.keyword_match.score * 30) \div 40,
     keyword_placement  |-> (b.keyword_placement.score * 20) \div 25,
     experience         |-> b.experience.score,
     education          |-> b.education.score,
     formatting         |-> b.formatting.score,
     contact_info       |-> b.contact_info.score,
     document_structure |-> b.document_structure.score,
     quantified_impact  |-> b.quantified_impact.score,
     seniority_match    |-> b.seniority_match.score]

SumTerms(t) ==
    t.keyword_match + t.keyword_placement + t.experience + t.education
    + t.formatting + t.contact_info + t.document_structure
    + t.quantified_impact + t.seniority_match

calculate_ats_score(res, ext, now) ==
    LET Response(breakdown, total) ==
            [final_score |-> round0(total, 10),
             tier        |-> Tier(total \div 10),
             breakdown   |-> breakdown]
        Normalize(breakdown) == Response(breakdown, SumTerms(AtsTerms(breakdown)))
    IN  Normalize(
            [keyword_match      |-> score_keyword_match(ext.matched_skills,
                                                        ext.jd_required_skills),
             keyword_placement  |-> score_keyword_placement(res, ext.matched_skills),
             experience         |-> score_experience_match(res, ext.required_years, now),
             education          |-> score_education(res, ext),
             formatting         |-> score_formatting(res),
             contact_info       |-> score_contact_info(res),
             document_structure |-> score_document_structure(res),
             quantified_impact  |-> score_quantified_impact(res),
             seniority_match    |-> score_seniority_match(res, ext.seniority_level)])

(***************************************************************************)
(* engine/ats_suggestions.py: the rule cascade over the ATS breakdown      *)
(***************************************************************************)
\* round(match_rate * 100, 1) of score_keyword_match, in tenths of a percent.
match_rate(matched_skills, required_skills) ==
    IF Cardinality(required_skills) = 0 THEN 0
    ELSE round0(1000 * Cardinality(matched_skills), Cardinality(required_skills))

generate_ats_suggestions(ats_score_breakdown, ext, score) ==
    LET breakdown == ats_score_breakdown.breakdown
        rate      == match_rate(ext.matched_skills, ext.jd_required_skills)
        placement == breakdown.keyword_placement
        education_gate ==
            IF breakdown.education.score = 0
            THEN <<Suggestion("Education Section", "critical", "hard_gate")>>
            ELSE <<>>
        keyword_match ==
            IF rate < 400
            THEN <<Suggestion("Skills Coverage", "critical", "keyword_match")>>
            ELSE IF rate < 600
            THEN <<Suggestion("Skills Coverage", "high", "keyword_match")>>
            ELSE <<>>
        keyword_placement ==
            IF placement.score < 1500
            THEN IF placement.summary_hits < 2
                 THEN <<Suggestion("Professional Summary", "high",
                                   "keyword_placement")>>
                 ELSE IF placement.experience_hits < 4
                 THEN <<Suggestion("Experience Bullets", "high",
                                   "keyword_placement")>>
                 ELSE <<>>
            ELSE <<>>
        experience ==
            IF breakdown.experience.score < 1000
            THEN <<Suggestion("Experience Timeline", "high", "experience")>>
            ELSE <<>>
        formatting ==
            IF breakdown.formatting.score < 700
            THEN <<Suggestion("Document Structure", "medium", "formatting")>>
            ELSE <<>>
        impact ==
            IF breakdown.formatting.metrics_found < 3
            THEN <<Suggestion("Quantified Achievements", "medium", "impact")>>
            ELSE <<>>
        suggestions == education_gate \o keyword_match \o keyword_placement
                       \o experience \o formatting \o impact
        Is(priority) == LET Test(x) == x.priority = priority
                        IN  SelectSeq(suggestions, Test)
        sorted == Is("critical") \o Is("high") \o Is("medium")
    IN  SubSeq(sorted, 1, Min(5, Len(sorted)))

(***************************************************************************)
(* main.py, database.py                                                    *)
(*                                                                         *)
(* Of a text the /score handler reads chars, len(text); blank, whether     *)
(* text.strip() is empty; and word_count, len(text.split()).  The database *)
(* is [user_tier, usage]: the tier of the user of the request's email      *)
(* (None when there is no such user) and the usage row of the current      *)
(* month, [exists, analyses_count].                                        *)
(***************************************************************************)
MAX_TEXT_LENGTH   == 50000
MIN_RESUME_LENGTH == 100
MIN_JD_LENGTH     == 50

TIER_LIMITS ==
    [free |-> 5, job_seeker |-> 120, unlimited |-> 500, recruiter |-> 1000]

\* The database after the call: a missing row of the month is created.
get_current_month_usage(d) ==
    IF d.usage.exists THEN d
    ELSE [d EXCEPT !.usage = [exists |-> TRUE, analyses_count |-> 0]]

increment_analysis_count(d) ==
    [get_current_month_usage(d) EXCEPT !.usage.analyses_count = @ + 1]

check_analysis_limit(d) ==
    LET after == get_current_month_usage(d)
        limit == IF d.user_tier \in DOMAIN TIER_LIMITS
                 THEN TIER_LIMITS[d.user_tier] ELSE TIER_LIMITS["free"]
    IN [db            |-> after,
        can_analyze   |-> after.usage.analyses_count < limit,
        current_count |-> after.usage.analyses_count,
        limit         |-> limit]

\* Variant: the two word-count rules are not checked.
input_validation_no_word_rules(res, jd_text) ==
    IF res.blank THEN "Resume text cannot be empty."
    ELSE IF jd_text.blank THEN "Job description cannot be empty."
    ELSE IF res.chars < MIN_RESUME_LENGTH
        THEN "Resume must be at least 100 characters."
    ELSE IF jd_text.chars < MIN_JD_LENGTH
        THEN "Job description must be at least 50 characters."
    ELSE IF res.chars > MAX_TEXT_LENGTH
        THEN "Resume exceeds maximum length of 50000 characters."
    ELSE IF jd_text.chars > MAX_TEXT_LENGTH
        THEN "Job description exceeds maximum length of 50000 characters."
    ELSE None

\* The detail of the 400 the request is rejected with, or None.
input_validation(res, jd_text) ==
    IF res.blank THEN "Resume text cannot be empty."
    ELSE IF jd_text.blank THEN "Job description cannot be empty."
    ELSE IF res.chars < MIN_RESUME_LENGTH
        THEN "Resume must be at least 100 characters."
    ELSE IF jd_text.chars < MIN_JD_LENGTH
        THEN "Job description must be at least 50 characters."
    ELSE IF res.chars > MAX_TEXT_LENGTH
        THEN "Resume exceeds maximum length of 50000 characters."
    ELSE IF jd_text.chars > MAX_TEXT_LENGTH
        THEN "Job description exceeds maximum length of 50000 characters."
    ELSE IF res.word_count < 20
        THEN "Resume must contain at least 20 words."
    ELSE IF jd_text.word_count < 10
        THEN "Job description must contain at least 10 words."
    ELSE None

NoBody == <<>>
HTTPException(status_code, detail, d, called) ==
    [status_code |-> status_code, detail |-> detail, results |-> NoBody,
     usage |-> <<>>, db |-> d, invoked |-> called]

\* The response of POST /score with the database and the calls it leaves.
get_score(res, jd_text, em, d, ext, sp, now, reply, flt) ==
    LET rejected == input_validation(res, jd_text)
        known == em # None /\ d.user_tier # None
        checked == check_analysis_limit(d)
        d1 == IF known THEN checked.db ELSE d
        lookup == IF em = None THEN <<>>
                  ELSE IF known THEN <<"get_user_by_email", "check_analysis_limit">>
                  ELSE <<"get_user_by_email">>
        results == run_analysis(res, jd_text, ext, sp, now, reply, flt)
        d2 == IF known THEN increment_analysis_count(d1) ELSE d1
        new_count == d2.usage.analyses_count
        after == lookup \o <<"run_analysis">>
                 \o (IF em = None THEN <<>>
                     ELSE IF known
                     THEN <<"get_user_by_email", "increment_analysis_count",
                            "check_analysis_limit">>
                     ELSE <<"get_user_by_email">>)
    IN IF rejected # None THEN HTTPException(400, rejected, d, <<>>)
       ELSE IF known /\ ~checked.can_analyze
           THEN HTTPException(403, "Analysis limit reached", d1, lookup)
       ELSE [status_code |-> 200, detail |-> None, results |-> <<results>>,
             usage |-> IF known
                       THEN <<[analyses_used  |-> new_count,
                               analyses_limit |-> checked.limit,
                               remaining      |-> Max(0, checked.limit - new_count)]>>
                       ELSE <<>>,
             db |-> d2, invoked |-> after]

(***************************************************************************)
(* Inputs: the texts and collaborator answers a call is made with          *)
(***************************************************************************)
AllSkills == 1..MaxSkills

\* Heading keywords contained in a written phrase (the phrase itself and
\* the keywords that are substrings of it).
Kw(phrase) ==
    CASE phrase = "professional summary"    -> {"professional summary", "summary"}
      [] phrase = "work experience"         -> {"work experience", "experience"}
      [] phrase = "professional experience" -> {"professional experience", "experience"}
      [] phrase = "employment history"      -> {"employment history", "employment"}
      [] phrase = "technical skills"        -> {"technical skills", "skills"}
      [] phrase = "core competencies"       -> {"core competencies", "competencies"}
      [] OTHER                              -> {phrase}

Heading(phrase) == [words |-> Kw(phrase), short |-> TRUE, skills |-> {}, ranges |-> <<>>]
Body(skills, ranges) == [words |-> {}, short |-> FALSE, skills |-> skills, ranges |-> ranges]

\* A section is a heading line followed by one body line.
Section(phrase, skills, ranges) == <<Heading(phrase), Body(skills, ranges)>>

Range(form, sy, sm, ey, em) ==
    [form |-> form, sy |-> sy, sm |-> sm, ey |-> ey, em |-> em,
     sentinel |-> FALSE, now_word |-> FALSE]
Ongoing(form, sy, sm) ==
    [form |-> form, sy |-> sy, sm |-> sm, ey |-> 0, em |-> 0,
     sentinel |-> TRUE, now_word |-> FALSE]

\* "Jan 2020 - Dec 2023", "Jan 2015 - Dec 2023", "2015 - 2023"
Closed47  == Range("my", 2020, 1, 2023, 12)
Closed107 == Range("my", 2015, 1, 2023, 12)
Years96   == Range("year", 2015, 0, 2023, 0)

NoMetrics == [common |-> 0, people |-> 0, times |-> 0, impact_only |-> 0]
Years(kind, n) == [kind |-> kind, n |-> n, m |-> 0]
YearsRange(kind, n, m) == [kind |-> kind, n |-> n, m |-> m]

Today == [y |-> 2024, m |-> 6]

\* A resume with every signal the scorers reward.
StrongResume ==
    [lines |-> Section("summary", AllSkills, <<>>)
               \o Section("experience", AllSkills, <<Closed107>>)
               \o Section("skills", AllSkills, <<>>)
               \o Section("education", {}, <<>>),
     email |-> TRUE, phone |-> TRUE, location |-> "city_state", linkedin |-> "url",
     extra_dates |-> 0, month_letters |-> FALSE,
     chars |-> 4000, blank |-> FALSE,
     word_count |-> 600, skill_freq |-> [s \in AllSkills |-> 3],
     synonym_skills |-> AllSkills,
     degree_words |-> {"bachelor"},
     metrics |-> [common |-> 8, people |-> 0, times |-> 0, impact_only |-> 0],
     years |-> NoYears,
     entry_kw |-> 0, mgmt_kw |-> 0, senior_kw |-> 1, leadership |-> 3,
     senior_indicators |-> 3, entry_indicators |-> 0]

\* A resume in which some signals are present.
TypicalResume ==
    [lines |-> Section("summary", {1}, <<>>)
               \o Section("experience", {1}, <<Closed47>>)
               \o Section("education", {}, <<>>),
     email |-> TRUE, phone |-> TRUE, location |-> "none", linkedin |-> "none",
     extra_dates |-> 0, month_letters |-> FALSE,
     chars |-> 2000, blank |-> FALSE,
     word_count |-> 300, skill_freq |-> [s \in AllSkills |-> IF s = 1 THEN 2 ELSE 0],
     synonym_skills |-> {1},
     degree_words |-> {"degree"},
     metrics |-> [common |-> 1, people |-> 0, times |-> 0, impact_only |-> 0],
     years |-> NoYears,
     entry_kw |-> 0, mgmt_kw |-> 0, senior_kw |-> 0, leadership |-> 0,
     senior_indicators |-> 0, entry_indicators |-> 0]

\* A resume with none of the signals.
WeakResume ==
    [lines |-> <<Body({}, <<>>)>>,
     email |-> FALSE, phone |-> FALSE, location |-> "none", linkedin |-> "none",
     extra_dates |-> 0, month_letters |-> FALSE,
     chars |-> 300, blank |-> FALSE,
     word_count |-> 40, skill_freq |-> [s \in AllSkills |-> 0],
     synonym_skills |-> {},
     degree_words |-> {},
     metrics |-> NoMetrics,
     years |-> NoYears,
     entry_kw |-> 0, mgmt_kw |-> 0, senior_kw |-> 0, leadership |-> 0,
     senior_indicators |-> 0, entry_indicators |-> 0]

BaseJd ==
    [years |-> Years("plus", 5), entry_kw |-> 0, mgmt_kw |-> 0, senior_kw |-> 0,
     edu_required |-> TRUE, edu_preferred |-> FALSE, synonym_skills |-> {1, 2},
     chars |-> 800, blank |-> FALSE, word_count |-> 120]

Extraction(matched, missing, required, years) ==
    [matched_skills |-> matched, missing_skills |-> missing,
     jd_required_skills |-> required, required_years |-> years,
     education_required |-> "bachelor", seniority_level |-> "senior",
     lists |-> AllLists]

NoSpacy(similarity) == [similarity |-> similarity, jd_skills |-> {}, res_skills |-> {}]

\* Suggestions the LLM returns, given by their priorities.
Suggested(priorities) ==
    [i \in 1..Len(priorities) |-> Suggestion("Experience", priorities[i], None)]

\* "Generate exactly 5 suggestions", here in the order of the priorities.
FiveSuggested == Suggested(<<"high", "high", "medium", "medium", "low">>)

Answered == [raises |-> FALSE]
Raised   == [raises |-> TRUE]

Usage(n) == [exists |-> TRUE, analyses_count |-> n]
NoUsage  == [exists |-> FALSE, analyses_count |-> 0]
NoUser   == [user_tier |-> None, usage |-> NoUsage]

\* A call in which both prompts are answered and no step raises, made
\* without an email.
Request(res, jd_text, ext, sp) ==
    [resume |-> res, jd |-> jd_text, extraction |-> ext, nlp |-> sp, today |-> Today,
     llm |-> [extract |-> Answered,
              suggest |-> [raises |-> FALSE, suggestions |-> FiveSuggested]],
     fault |-> None, email |-> None, db |-> NoUser]

StrongRequest ==
    Request(StrongResume, BaseJd, Extraction(AllSkills, {}, AllSkills, 5), NoSpacy(1000))
TypicalRequest ==
    Request(TypicalResume, BaseJd, Extraction({1}, {2}, {1, 2}, 5), NoSpacy(337))
WeakRequest ==
    Request(WeakResume, BaseJd, Extraction({}, AllSkills, AllSkills, 5), NoSpacy(0))

Bases == {StrongRequest, TypicalRequest, WeakRequest}

\* --- the skill lists of the collaborators --------------------------------
\* The missing and the required lists count by their length alone.
SkillRequests ==
    {[TypicalRequest EXCEPT !.extraction.matched_skills = h,
                            !.extraction.missing_skills = 1..m,
                            !.extraction.jd_required_skills = 1..r] :
        h \in SUBSET AllSkills, m \in 0..MaxSkills, r \in 0..MaxSkills}
    \cup
    {[TypicalRequest EXCEPT !.extraction.matched_skills = {},
                            !.extraction.missing_skills = {},
                            !.nlp.jd_skills = j,
                            !.nlp.res_skills = s] :
        j \in SUBSET AllSkills, s \in SUBSET AllSkills}

\* --- contact block and document similarity --------------------------------
Locations    == {"none", "city_state", "city_in_header", "word_caps"}
Linkedins    == {"none", "url", "shorthand"}
Similarities == {-300, 0, 337, 850, 1000}

ContactRequests ==
    {[b EXCEPT !.resume.email = e, !.resume.phone = p, !.resume.location = l,
               !.resume.linkedin = k, !.nlp.similarity = s] :
        b \in Bases, e \in BOOLEAN, p \in BOOLEAN, l \in Locations,
        k \in Linkedins, s \in Similarities}

\* A resume with every signal but no email, phone, location or degree,
\* none of whose skills the extraction matched.
ScenarioRequests ==
    {[StrongRequest EXCEPT !.resume.email = FALSE, !.resume.phone = FALSE,
                           !.resume.location = "none", !.resume.degree_words = {},
                           !.resume.linkedin = k, !.nlp.similarity = s,
                           !.extraction = Extraction({}, AllSkills, AllSkills, 5)] :
        k \in Linkedins, s \in Similarities}

\* --- section layout -------------------------------------------------------
Part(phrase, skills, ranges) ==
    IF phrase = None THEN <<Body(skills, ranges)>> ELSE Section(phrase, skills, ranges)

Layouts ==
    {(IF extra = None THEN <<>> ELSE <<Heading(extra)>>)
     \o Part(sum, ss, <<>>) \o Part(exp, es, rs)
     \o (IF skl = None THEN <<>> ELSE Section(skl, AllSkills, <<>>))
     \o (IF edu = None THEN <<>> ELSE Section(edu, {}, <<>>)) :
        extra \in {None, "career highlights"},
        sum \in {None, "summary", "professional summary"},
        ss  \in {{}, {1}, AllSkills},
        exp \in {None, "experience", "work experience", "employment history"},
        es  \in {{}, AllSkills},
        rs  \in {<<>>, <<Closed47>>, <<Ongoing("eu", 2020, 1)>>},
        skl \in {None, "skills", "technical skills"},
        edu \in {None, "education"}}

LayoutRequests == {[TypicalRequest EXCEPT !.resume.lines = l] : l \in Layouts}

\* The four sections in every order; the Skills section lists every skill.
SectionOrders ==
    {o \in [1..4 -> {"summary", "experience", "skills", "education"}] :
        \A i, j \in 1..4 : o[i] = o[j] => i = j}

Ordered(o, ss, es) ==
    LET Sec(phrase) ==
            CASE phrase = "summary"    -> Section("summary", ss, <<>>)
              [] phrase = "experience" -> Section("experience", es, <<Closed107>>)
              [] phrase = "skills"     -> Section("skills", AllSkills, <<>>)
              [] phrase = "education"  -> Section("education", {}, <<>>)
    IN  Sec(o[1]) \o Sec(o[2]) \o Sec(o[3]) \o Sec(o[4])

PlacementRequests ==
    {[StrongRequest EXCEPT !.resume.lines = Ordered(o, ss, es)] :
        o \in SectionOrders, ss \in {{}, {1, 2}, {1, 2, 3}},
        es \in {{}, {1, 2, 3, 4}, AllSkills}}

\* --- metrics, stray dates -------------------------------------------------
MetricRequests ==
    {[b EXCEPT !.resume.metrics = [common |-> c, people |-> q, times |-> t,
                                   impact_only |-> i],
               !.resume.extra_dates = d, !.resume.month_letters = ml] :
        b \in Bases, c \in {0, 1, 2, 3, 5, 8}, q \in 0..1, t \in 0..1, i \in 0..1,
        d \in 0..2, ml \in BOOLEAN}

\* --- education ------------------------------------------------------------
\* Degree wordings of a resume, each with the keywords it contains.
DegreeWordings == {{}, {"degree"}, {"bachelor"}, {"associate"},
                   {"associate degree", "associate", "degree"},
                   {"graduated"}, {"mba"}}
EducationLevels == {"none", "associate", "bachelor", "master", "phd"}

EducationRequests ==
    {[b EXCEPT !.resume.degree_words = w, !.jd.edu_required = rq,
               !.jd.edu_preferred = pf, !.extraction.education_required = lv] :
        b \in Bases, w \in DegreeWordings, rq \in BOOLEAN, pf \in BOOLEAN,
        lv \in EducationLevels}

\* --- keyword frequency ----------------------------------------------------
\* Occurrences of skill 3 (a name another name contains) and of skill 4;
\* every other skill occurs once.
Frequencies == {0, 5, 6, 12, 13, 14}
WordCounts  == {300, 800, 1700}

StuffingRequests ==
    {[StrongRequest EXCEPT !.resume.word_count = w,
                           !.resume.skill_freq =
                               [s \in AllSkills |-> IF s = 3 THEN a
                                                    ELSE IF s = 4 THEN b ELSE 1],
                           !.extraction.matched_skills = h] :
        w \in WordCounts, a \in Frequencies, b \in Frequencies,
        h \in {1..3, 1..4, {1, 3, 4, 5}, AllSkills}}

\* --- the LLM and the steps that raise -------------------------------------
SuggestReplies ==
    {[raises |-> TRUE, suggestions |-> <<>>]}
    \cup {[raises |-> FALSE, suggestions |-> Suggested(ps)] :
            ps \in {<<>>, <<"low", "high">>, <<"medium", "critical", "high">>,
                    <<"critical", "high", "medium", "low">>,
                    [i \in 1..MaxSuggestions |-> "high"]}}

SuggestionRequests ==
    {[b EXCEPT !.llm.suggest = r] :
        b \in Bases \cup {[TypicalRequest EXCEPT !.extraction.missing_skills = {}]},
        r \in SuggestReplies}

\* The extraction prompt fails: extract_all returns the semantic fallback.
Unavailable(b) ==
    [b EXCEPT !.llm.extract = Raised,
              !.extraction = extract_all(b.jd, b.resume, None, Raised)]

UnavailableRequests ==
    {[Unavailable(b) EXCEPT !.llm.suggest = r] : b \in Bases, r \in SuggestReplies}

\* nlp(...) raises; a step of the scoring raises (required_years is null
\* in the payload); calculate_density raises.
Faults == {"nlp", "scoring", "density"}

FaultRequests ==
    {[b EXCEPT !.fault = f, !.llm.suggest = r] :
        b \in Bases \cup {Unavailable(TypicalRequest)},
        f \in Faults, r \in SuggestReplies}

\* --- the payload the extraction prompt is answered with -------------------
Shapes ==
    {AllLists}
    \cup {[AllLists EXCEPT ![f] = k] : f \in ListFields, k \in {"null", "absent"}}

\* A field that is not a list holds no skills.  When the call raises there
\* is no payload and the extraction of the request is never consulted.
Payload(ext, shape) ==
    [ext EXCEPT !.lists = shape,
                !.matched_skills =
                    IF shape["matched_skills"] = "list" THEN @ ELSE {},
                !.missing_skills =
                    IF shape["missing_skills"] = "list" THEN @ ELSE {},
                !.jd_required_skills =
                    IF shape["jd_required_skills"] = "list" THEN @ ELSE {}]

ExtractRequests ==
    {[b EXCEPT !.extraction = Payload(b.extraction, sh)] : b \in Bases, sh \in Shapes}
    \cup {[b EXCEPT !.llm.extract = Raised] : b \in Bases}

\* --- the texts and the account of a /score request ------------------------
Text(chars, word_count) == [chars |-> chars, word_count |-> word_count, blank |-> FALSE]
Blank(chars) == [chars |-> chars, word_count |-> 0, blank |-> TRUE]

ResumeTexts ==
    {Blank(0), Blank(120), Text(99, 20), Text(100, 19), Text(100, 20),
     Text(2000, 300), Text(50000, 6000), Text(50001, 6000)}
JdTexts ==
    {Blank(0), Blank(60), Text(49, 10), Text(50, 9), Text(50, 10),
     Text(800, 120), Text(50000, 6000), Text(50001, 6000)}

Accounts ==
    {[email |-> None, db |-> NoUser],
     [email |-> None, db |-> [user_tier |-> "free", usage |-> Usage(4)]],
     [email |-> "user@example.com", db |-> NoUser]}
    \cup {[email |-> "user@example.com", db |-> [user_tier |-> t, usage |-> u]] :
            t \in {"free", "job_seeker"}, u \in {NoUsage, Usage(0), Usage(4), Usage(5)}}

ScoreRequests ==
    {[TypicalRequest EXCEPT !.resume.chars = rt.chars,
                            !.resume.word_count = rt.word_count,
                            !.resume.blank = rt.blank,
                            !.jd.chars = jt.chars,
                            !.jd.word_count = jt.word_count,
                            !.jd.blank = jt.blank,
                            !.email = a.email,
                            !.db = a.db] :
        rt \in ResumeTexts, jt \in JdTexts, a \in Accounts}
    \cup {[TypicalRequest EXCEPT !.fault = f, !.email = a.email, !.db = a.db] :
            f \in Faults, a \in Accounts}

\* --- experience and level -------------------------------------------------
ExpLines(where, rs) ==
    CASE where = "experience" -> Section("summary", {1}, <<>>)
                                 \o Section("experience", {1}, rs)
                                 \o Section("education", {}, <<>>)
      [] where = "education"  -> Section("experience", {1}, <<>>)
                                 \o Section("education", {}, rs)
      [] OTHER                -> <<Body({1}, rs)>>

ResumeStatements == {NoYears} \cup {Years("exp", n) : n \in 1..MaxYears}

JdStatements ==
    {NoYears} \cup {Years("plus", n) : n \in 1..MaxYears}
    \cup {YearsRange("range", 5, 8), YearsRange("range", 3, 6),
          YearsRange("range", 2, 5), YearsRange("range", 8, 10),
          YearsRange("range", 4, 6), YearsRange("range_exp", 4, 6)}

\* Keyword groups decide the level only when no years are found.
SeniorityResumes ==
    {[TypicalResume EXCEPT !.years = st, !.lines = ExpLines("experience", rs)] :
        st \in ResumeStatements, rs \in {<<>>, <<Closed47>>, <<Years96>>}}
    \cup
    {[TypicalResume EXCEPT !.lines = ExpLines("experience", <<>>),
                           !.entry_kw = e, !.mgmt_kw = m, !.senior_kw = sn,
                           !.leadership = ld] :
        e \in 0..2, m \in 0..1, sn \in 0..1, ld \in {0, 3}}

SeniorityJds ==
    {[BaseJd EXCEPT !.years = st] : st \in JdStatements}
    \cup
    {[BaseJd EXCEPT !.years = NoYears, !.entry_kw = e, !.mgmt_kw = m,
                    !.senior_kw = sn] : e \in 0..1, m \in 0..1, sn \in 0..1}

ExperienceRequests ==
    {Request(r, j, Extraction({1}, {2}, {1, 2}, q), NoSpacy(337)) :
        r \in SeniorityResumes,
        j \in {BaseJd, [BaseJd EXCEPT !.years = NoYears]},
        q \in 0..MaxYears}

LevelRequests ==
    {[b EXCEPT !.resume.senior_indicators = si, !.resume.entry_indicators = ei,
               !.extraction.seniority_level = lv] :
        b \in Bases, si \in {0, 3}, ei \in {0, 2},
        lv \in {"", "entry", "mid", "senior", "management"}}

\* The analyses whose ATS breakdown the rule cascade is run on.
AtsSuggestionRequests ==
    Bases \cup SkillRequests \cup LayoutRequests \cup MetricRequests
    \cup EducationRequests

Requests ==
    Bases \cup SkillRequests \cup ContactRequests \cup ScenarioRequests
    \cup LayoutRequests \cup PlacementRequests
    \cup MetricRequests \cup EducationRequests \cup ExperienceRequests
    \cup LevelRequests \cup StuffingRequests \cup SuggestionRequests
    \cup UnavailableRequests \cup FaultRequests

SeniorityRequests ==
    {Request(r, j, TypicalRequest.extraction, TypicalRequest.nlp) :
        r \in SeniorityResumes, j \in SeniorityJds}

\* --- written date ranges --------------------------------------------------
Forms == {"dmy", "my", "eu", "us", "season", "quarter", "year"}

\* Month of a start date as the form can write it.
StartMonth(form) ==
    CASE form = "season"  -> _SEASON_MONTHS.spring
      [] form = "quarter" -> _QUARTER_MONTHS.q1
      [] form = "year"    -> 0
      [] OTHER            -> 1
EndMonth(form) ==
    CASE form = "season"  -> _SEASON_MONTHS.winter
      [] form = "quarter" -> _QUARTER_MONTHS.q4
      [] form = "year"    -> 0
      [] OTHER            -> 12

DateRanges ==
    {Range(f, sy, StartMonth(f), 2023, EndMonth(f)) : f \in Forms, sy \in {2015, 2020}}
    \cup {Ongoing(f, sy, StartMonth(f)) : f \in Forms, sy \in {2015, 2020}}
MoreRanges ==
    {Range("my", 2012, 6, 2014, 12), Range("my", 2020, 1, 2023, 12),
     Range("year", 2010, 0, 2012, 0), Ongoing("my", 2020, 1)}

RECURSIVE RangeSeqs(_)
RangeSeqs(n) ==
    IF n = 0 THEN {<<>>}
    ELSE IF n = 1 THEN {<<>>} \cup {<<r>> : r \in DateRanges}
    ELSE RangeSeqs(n - 1)
         \cup {Append(rs, r) : rs \in {x \in RangeSeqs(n - 1) : Len(x) = n - 1},
                               r \in MoreRanges}

Todays == {Today, [y |-> 2024, m |-> 1]}

DateRequests ==
    {[TypicalRequest EXCEPT !.resume.years = st,
                            !.resume.lines = ExpLines(where, rs),
                            !.today = now] :
        st \in ResumeStatements, rs \in RangeSeqs(MaxRanges),
        where \in {"experience", "education", "unsectioned"}, now \in Todays}

(***************************************************************************)
(* The state machine: one call of an entry point                           *)
(***************************************************************************)
Bind(c, rq) ==
    /\ call = c
    /\ pc = "called"
    /\ resume = rq.resume
    /\ jd = rq.jd
    /\ extraction = rq.extraction
    /\ nlp = rq.nlp
    /\ today = rq.today
    /\ llm = rq.llm
    /\ fault = rq.fault
    /\ email = rq.email
    /\ db = rq.db
    /\ invoked = <<>>
    /\ inflight = <<>>
    /\ locals = <<>>
    /\ result = None

Init ==
    \/ \E rq \in Requests : Bind("run_analysis", rq)
    \/ \E rq \in Requests : Bind("calculate_ats_score", rq)
    \/ \E rq \in SeniorityRequests : Bind("build_seniority_audit", rq)
    \/ \E rq \in DateRequests : Bind("calculate_total_experience", rq)
    \/ \E rq \in ExtractRequests : Bind("extract_all", rq)
    \/ \E rq \in ScoreRequests : Bind("get_score", rq)
    \/ \E rq \in AtsSuggestionRequests : Bind("generate_ats_suggestions", rq)

RunAnalysis ==
    /\ call = "run_analysis"
    /\ pc = "called"
    /\ result' = run_analysis(resume, jd, extraction, nlp, today, llm.suggest, fault)
    /\ pc' = "returned"
    /\ UNCHANGED <<call, resume, jd, extraction, nlp, today, llm, fault,
                 email, db, invoked, inflight, locals>>

CalculateAtsScore ==
    /\ call = "calculate_ats_score"
    /\ pc = "called"
    /\ result' = calculate_ats_score(resume, extraction, today)
    /\ pc' = "returned"
    /\ UNCHANGED <<call, resume, jd, extraction, nlp, today, llm, fault,
                 email, db, invoked, inflight, locals>>

BuildSeniorityAudit ==
    /\ call = "build_seniority_audit"
    /\ pc = "called"
    /\ result' = build_seniority_audit(resume, jd, today)
    /\ pc' = "returned"
    /\ UNCHANGED <<call, resume, jd, extraction, nlp, today, llm, fault,
                 email, db, invoked, inflight, locals>>

CalculateTotalExperience ==
    /\ call = "calculate_total_experience"
    /\ pc = "called"
    /\ result' = calculate_total_experience(resume, today)
    /\ pc' = "returned"
    /\ UNCHANGED <<call, resume, jd, extraction, nlp, today, llm, fault,
                 email, db, invoked, inflight, locals>>

ExtractAll ==
    /\ call = "extract_all"
    /\ pc = "called"
    /\ result' = extract_all(jd, resume, extraction, llm.extract)
    /\ pc' = "returned"
    /\ UNCHANGED <<call, resume, jd, extraction, nlp, today, llm, fault,
                 email, db, invoked, inflight, locals>>

GetScore ==
    /\ call = "get_score"
    /\ pc = "called"
    /\ LET Respond(r) ==
             /\ result' = [status_code |-> r.status_code, detail |-> r.detail,
                           results |-> r.results, usage |-> r.usage]
             /\ db' = r.db
             /\ invoked' = r.invoked
       IN Respond(get_score(resume, jd, email, db, extraction, nlp, today,
                            llm.suggest, fault))
    /\ pc' = "returned"
    /\ UNCHANGED <<call, resume, jd, extraction, nlp, today, llm, fault, email,
                   inflight, locals>>

GenerateAtsSuggestions ==
    /\ call = "generate_ats_suggestions"
    /\ pc = "called"
    /\ LET Cascade(ats_score_breakdown) ==
             generate_ats_suggestions(ats_score_breakdown, extraction,
                                      ats_score_breakdown.final_score)
       IN  result' = Cascade(calculate_ats_score(resume, extraction, today))
    /\ pc' = "returned"
    /\ UNCHANGED <<call, resume, jd, extraction, nlp, today, llm, fault,
                   email, db, invoked, inflight, locals>>

Next ==
    \/ RunAnalysis
    \/ CalculateAtsScore
    \/ BuildSeniorityAudit
    \/ CalculateTotalExperience
    \/ ExtractAll
    \/ GetScore
    \/ GenerateAtsSuggestions

Spec == Init /\ [][Next]_vars

(***************************************************************************)
(* The usage counter under concurrent requests                             *)
(*                                                                         *)
(* Requests of one known user that are served at the same time by server   *)
(* processes sharing the database.  POST /score (main.py 92-128) and POST  *)
(* /api/usage/increment (usage_api.py 87-116) both call                    *)
(* check_analysis_limit and, later, increment_analysis_count; the latter   *)
(* selects the row of the month, adds one to the value it read and commits *)
(* (database.py 187-192).  No lock, no SELECT ... FOR UPDATE and no        *)
(* conditional UPDATE ties the three statements together, so the steps of  *)
(* different requests interleave freely.                                   *)
(***************************************************************************)
MaxWorkers == 2
Workers == 1..MaxWorkers
Routes == {"/score", "/api/usage/increment"}

limit_of(d) == check_analysis_limit(d).limit

KnownUsers ==
    UNION {{[user_tier |-> t, usage |-> u] :
              u \in {NoUsage, Usage(0), Usage(TIER_LIMITS[t] - 2),
                     Usage(TIER_LIMITS[t] - 1), Usage(TIER_LIMITS[t])}} :
           t \in {"free", "job_seeker"}}

Received(route) ==
    [route |-> route, pc |-> "received", count |-> 0, status_code |-> 0]

ServeInit ==
    /\ call = "serve"
    /\ pc = "serving"
    /\ resume = TypicalRequest.resume
    /\ jd = TypicalRequest.jd
    /\ extraction = TypicalRequest.extraction
    /\ nlp = TypicalRequest.nlp
    /\ today = TypicalRequest.today
    /\ llm = TypicalRequest.llm
    /\ fault = None
    /\ email = "user@example.com"
    /\ db \in KnownUsers
    /\ invoked = <<>>
    /\ inflight \in [Workers -> {Received(route) : route \in Routes}]
    /\ locals = <<>>
    /\ result = None

\* check_analysis_limit, and the 403 of either handler.
CheckLimit ==
    /\ call = "serve"
    /\ \E w \in Workers :
         /\ inflight[w].pc = "received"
         /\ LET Checked(c) ==
                  /\ db' = c.db
                  /\ inflight' = [inflight EXCEPT ![w] =
                        IF c.can_analyze
                        THEN [@ EXCEPT !.pc = "checked", !.count = c.current_count]
                        ELSE [@ EXCEPT !.pc = "responded", !.count = c.current_count,
                                       !.status_code = 403]]
            IN Checked(check_analysis_limit(db))
    /\ UNCHANGED <<call, pc, resume, jd, extraction, nlp, today, llm, fault,
                   email, invoked, locals, result>>

\* increment_analysis_count, first statement: the row of the month is read
\* (for /score after run_analysis has returned).
LoadUsage ==
    /\ call = "serve"
    /\ \E w \in Workers :
         /\ inflight[w].pc = "checked"
         /\ db' = get_current_month_usage(db)
         /\ inflight' = [inflight EXCEPT ![w] =
               [@ EXCEPT !.pc = "loaded",
                         !.count = get_current_month_usage(db).usage.analyses_count]]
    /\ UNCHANGED <<call, pc, resume, jd, extraction, nlp, today, llm, fault,
                   email, invoked, locals, result>>

\* increment_analysis_count, second statement: the value read, plus one, is
\* written and committed; the handler answers 200.
StoreUsage ==
    /\ call = "serve"
    /\ \E w \in Workers :
         /\ inflight[w].pc = "loaded"
         /\ db' = [db EXCEPT !.usage.analyses_count = inflight[w].count + 1]
         /\ inflight' = [inflight EXCEPT ![w] =
               [@ EXCEPT !.pc = "responded", !.count = inflight[w].count + 1,
                         !.status_code = 200]]
    /\ UNCHANGED <<call, pc, resume, jd, extraction, nlp, today, llm, fault,
                   email, invoked, locals, result>>

ServeNext ==
    \/ CheckLimit
    \/ LoadUsage
    \/ StoreUsage

UsageSpec == ServeInit /\ [][ServeNext]_vars

(***************************************************************************)
(* optimizer.py: optimize_resume, step by step                             *)
(*                                                                         *)
(* Scores are counts of hundredths, so that round(x, 1) is not the         *)
(* identity.  Texts are numbered: 0 is resume_text, i the text returned by *)
(* rewrite_resume in pass i.  The collaborators (rewrite_resume,           *)
(* run_analysis_fn, generate_docx) answer each call with any outcome of    *)
(* the sets below.  `passes` records what each pass produced.              *)
(***************************************************************************)
TARGET == 8000
MAX_PASSES == 2

OriginalScores == {0, 4210, 7990, 7996, 8000, 8004, 9130}
\* result.get("score", best_score) of a result without "score" is the best
\* score itself.
NewScores == {0, 4210, 6500, 7990, 7996, 8000, 8004, 9130}

\* What a call of rewrite_resume or run_analysis_fn produced.
Outcomes ==
    [raises : {TRUE}, has_score : {FALSE}, score : {0}]
    \cup [raises : {FALSE}, has_score : {FALSE}, score : {0}]
    \cup [raises : {FALSE}, has_score : {TRUE}, score : NewScores]

\* Record of a pass: whether rewrite_resume returned, whether the text was
\* scored, the text, the score and the best score before the pass.
Pass(rewrote, scored, text, score, before) ==
    [rewrote |-> rewrote, scored |-> scored, text |-> text, score |-> score,
     before |-> before]

\* The test of the while loop.
loop_condition_three_passes(best_score, iterations) ==
    best_score < TARGET /\ iterations < MAX_PASSES + 1
loop_condition(best_score, iterations) ==
    best_score < TARGET /\ iterations < MAX_PASSES

\* The assignment of a pass that was scored.
keep_best(best_score, new_score) == new_score > best_score

OptimizeInit ==
    /\ call = "optimize_resume"
    /\ pc = "while"
    /\ resume = TypicalRequest.resume
    /\ jd = TypicalRequest.jd
    /\ extraction = TypicalRequest.extraction
    /\ nlp = TypicalRequest.nlp
    /\ today = TypicalRequest.today
    /\ llm = TypicalRequest.llm
    /\ fault = None
    /\ email = None
    /\ db = NoUser
    /\ invoked = <<>>
    /\ inflight = <<>>
    /\ \E original_score \in OriginalScores :
         locals = [original_score |-> original_score, best_text |-> 0,
                   best_score |-> original_score, iterations |-> 0,
                   rewritten |-> 0, passes |-> <<>>]
    /\ result = None

\* The loop is entered: iterations += 1 and rewrite_resume is called.
Rewrite ==
    /\ call = "optimize_resume"
    /\ pc = "while"
    /\ loop_condition(locals.best_score, locals.iterations)
    /\ \E raises \in BOOLEAN :
         IF raises
         THEN /\ locals' = [locals EXCEPT
                    !.iterations = @ + 1,
                    !.passes = Append(@, Pass(FALSE, FALSE, 0, 0,
                                              locals.best_score))]
              /\ pc' = "break"
         ELSE /\ locals' = [locals EXCEPT
                    !.iterations = @ + 1,
                    !.rewritten = locals.iterations + 1]
              /\ pc' = "rewritten"
    /\ UNCHANGED <<call, resume, jd, extraction, nlp, today, llm, fault,
                   email, db, invoked, inflight, result>>

\* run_analysis_fn is called on the rewritten text and the pass is judged.
Rescore ==
    /\ call = "optimize_resume"
    /\ pc = "rewritten"
    /\ \E outcome \in Outcomes :
         LET new_score == IF outcome.has_score THEN outcome.score
                          ELSE locals.best_score
             Scored(score) == Pass(TRUE, TRUE, locals.rewritten, score,
                                   locals.best_score)
         IN IF outcome.raises
            THEN /\ locals' = [locals EXCEPT
                       !.passes = Append(@, Pass(TRUE, FALSE, locals.rewritten,
                                                 0, locals.best_score))]
                 /\ pc' = "break"
            ELSE IF keep_best(locals.best_score, new_score)
            THEN /\ locals' = [locals EXCEPT
                       !.best_score = new_score,
                       !.best_text = locals.rewritten,
                       !.passes = Append(@, Scored(new_score))]
                 /\ pc' = "while"
            ELSE /\ locals' = [locals EXCEPT !.passes = Append(@, Scored(new_score))]
                 /\ pc' = "break"
    /\ UNCHANGED <<call, resume, jd, extraction, nlp, today, llm, fault,
                   email, db, invoked, inflight, result>>

\* After the loop: the DOCX is generated, or not, and the dict is returned.
Return ==
    /\ call = "optimize_resume"
    /\ \/ pc = "break"
       \/ pc = "while" /\ ~loop_condition(locals.best_score, locals.iterations)
    /\ \E docx_b64 \in {None, "docx"} :
         result' = [optimized_text |-> locals.best_text,
                    original_score |-> round0(locals.original_score, 10),
                    new_score      |-> round0(locals.best_score, 10),
                    improvement    |-> round0(locals.best_score
                                                - locals.original_score, 10),
                    iterations     |-> locals.iterations,
                    docx_b64       |-> docx_b64,
                    target_reached |-> locals.best_score >= TARGET]
    /\ pc' = "returned"
    /\ UNCHANGED <<call, resume, jd, extraction, nlp, today, llm, fault,
                   email, db, invoked, inflight, locals>>

OptimizeNext ==
    \/ Rewrite
    \/ Rescore
    \/ Return

\* The function is sequential code: a step that can be taken is taken.
OptimizeSpec == OptimizeInit /\ [][OptimizeNext]_vars /\ WF_vars(OptimizeNext)

Returned(c) == call = c /\ pc = "returned"

\* run_analysis has returned from the end of its try block.
Analysed == Returned("run_analysis") /\ result.tier # "error"

(***************************************************************************)
(* Properties                                                              *)
(***************************************************************************)

\* C1: in a run_analysis result whose score is not clamped, the nine
\* score_breakdown values add up to `score`.
C1_BreakdownSumsToScore ==
    Analysed =>
        LET b == result.score_breakdown
            unclamped == round1(RawTotal(Components(resume, jd, extraction, nlp, today)))
        IN  (0 <= unclamped /\ unclamped <= 1000) =>
                b.keyword_overlap + b.keyword_placement + b.experience
                + b.education + b.formatting + b.contact + b.structure
                + b.impact + b.seniority = result.score

\* C2: with every component at its ceiling the final score is exactly 100,
\* for the W_* weights of run_analysis and for the 30/20/15/10/10/5/5/5/5
\* scheme summed by calculate_ats_score.
C2_CeilingsSumTo100 ==
    /\ Analysed =>
        LET c == Components(resume, jd, extraction, nlp, today)
        IN  (/\ c.keyword    = Pts(W_KEYWORD_OVERLAP, 1, 1)
             /\ c.semantic   = Pts(W_SEMANTIC, 1, 1)
             /\ c.placement  = Pts(W_PLACEMENT, 1, 1)
             /\ c.exp        = Pts(W_EXPERIENCE, 1, 1)
             /\ c.education  = Pts(W_EDUCATION, 1, 1)
             /\ c.structure  = Pts(W_STRUCTURE, 1, 1)
             /\ c.formatting = Pts(W_FORMATTING, 1, 1)
             /\ c.impact     = Pts(W_IMPACT, 1, 1)
             /\ c.contact    = Pts(W_CONTACT, 1, 1)
             /\ c.seniority  = Pts(W_SENIORITY, 1, 1))
            => result.score = 1000
    /\ Returned("calculate_ats_score") =>
        LET t == AtsTerms(result.breakdown)
        IN  (/\ t.keyword_match = 3000
             /\ t.keyword_placement = 2000
             /\ t.experience = 1500
             /\ t.education = 1000
             /\ t.formatting = 1000
             /\ t.contact_info = 500
             /\ t.document_structure = 500
             /\ t.quantified_impact = 500
             /\ t.seniority_match = 500)
            => result.final_score = 1000

\* C3: every score_breakdown value of a run_analysis result lies within
\* [0, its declared ceiling] and `score` lies within [0, 100], whatever the
\* extraction and the similarity (a negative similarity included).
C3_BreakdownWithinCeilings ==
    Analysed =>
        LET b == result.score_breakdown
        IN  /\ 0 <= b.keyword_overlap   /\ b.keyword_overlap   <= 300
            /\ 0 <= b.keyword_placement /\ b.keyword_placement <= 200
            /\ 0 <= b.experience        /\ b.experience        <= 150
            /\ 0 <= b.education         /\ b.education         <= 100
            /\ 0 <= b.formatting        /\ b.formatting        <= 100
            /\ 0 <= b.contact           /\ b.contact           <= 50
            /\ 0 <= b.structure         /\ b.structure         <= 50
            /\ 0 <= b.impact            /\ b.impact            <= 50
            /\ 0 <= b.seniority         /\ b.seniority         <= 50
            /\ 0 <= result.score        /\ result.score        <= 1000

\* C4 (as stated): the keyword-match score of run_analysis is within
\* [0, 30], and any input with a matched/required ratio at least as high
\* has a keyword-match score at least as high.
C4_KeywordMonotoneInMatchedOverRequired ==
    Analysed =>
        LET sk == Skills(extraction, nlp)
            kw == result.score_breakdown.keyword_overlap
            Cases == {[hits |-> 1..h, missing |-> 1..m, all_jd_skills |-> 1..r] :
                         h \in 0..MaxSkills, m \in 0..MaxSkills, r \in 0..MaxSkills}
            Matched(x)  == Cardinality(x.hits)
            Required(x) == Cardinality(x.all_jd_skills)
        IN  /\ 0 <= kw /\ kw <= 300
            /\ \A o \in Cases :
                 (/\ Required(sk) > 0 /\ Required(o) > 0
                  /\ Matched(o) * Required(sk) >= Matched(sk) * Required(o))
                 => round1(keyword_score(o)) >= kw

\* C4 (amended): the keyword-match score of run_analysis is within
\* [0, 30] and is non-decreasing in len(hits) / total_jd; that rate is the
\* matched/required ratio whenever the matched and missing skills together
\* are no more than the required skills, and among such inputs a higher
\* matched/required ratio never yields a lower score.
C4_KeywordMonotoneInEffectiveRate ==
    Analysed =>
        LET sk == Skills(extraction, nlp)
            kw == result.score_breakdown.keyword_overlap
            Cases == {[hits |-> 1..h, missing |-> 1..m, all_jd_skills |-> 1..r] :
                         h \in 0..MaxSkills, m \in 0..MaxSkills, r \in 0..MaxSkills}
            Matched(x)  == Cardinality(x.hits)
            Required(x) == Cardinality(x.all_jd_skills)
            Denominator(x) == Max(Max(Required(x),
                                      Matched(x) + Cardinality(x.missing)), 1)
            Within(x)   == /\ Required(x) > 0
                           /\ Matched(x) + Cardinality(x.missing) <= Required(x)
        IN  /\ 0 <= kw /\ kw <= 300
            /\ kw = round1((30 * U * Matched(sk)) \div Denominator(sk))
            /\ \A o \in Cases :
                 /\ Matched(o) * Denominator(sk) >= Matched(sk) * Denominator(o)
                    => round1(keyword_score(o)) >= kw
                 /\ (/\ Within(sk) /\ Within(o)
                     /\ Matched(o) * Required(sk) >= Matched(sk) * Required(o))
                    => round1(keyword_score(o)) >= kw

\* C4 witness: an analysis returned for matched skills longer than the
\* required skills, with a positive keyword score.
C4_Witness ==
    /\ Returned("run_analysis")
    /\ Cardinality(Skills(extraction, nlp).hits)
         > Cardinality(Skills(extraction, nlp).all_jd_skills)
    /\ Cardinality(Skills(extraction, nlp).all_jd_skills) > 0
    /\ result.score_breakdown.keyword_overlap > 0

\* C5: after the 30/40 rescale, score_keyword_match equals the band
\* function of rate = matched / required: 30 at 100%, 26 + (rate-0.8)/0.2*4
\* on [80,100), 20 + (rate-0.6)/0.2*6 on [60,80), 11 + (rate-0.4)/0.2*9 on
\* [40,60), rate/0.4*11 below 40%, and 20 when nothing is required.
\* Both sides are compared multiplied by 2 * required, in hundredths.
C5_KeywordBandFunction ==
    Returned("calculate_ats_score") =>
        LET m == Cardinality(extraction.matched_skills)
            r == Cardinality(extraction.jd_required_skills)
            rescaled == AtsTerms(result.breakdown).keyword_match
        IN  IF r = 0 THEN rescaled = 2000
            ELSE rescaled * 2 * r =
                   IF m >= r THEN 3000 * 2 * r
                   ELSE IF 5 * m >= 4 * r THEN 2600 * 2 * r + 800 * (5 * m - 4 * r)
                   ELSE IF 5 * m >= 3 * r THEN 2000 * 2 * r + 1200 * (5 * m - 3 * r)
                   ELSE IF 5 * m >= 2 * r THEN 1100 * 2 * r + 1800 * (5 * m - 2 * r)
                   ELSE 5500 * m

\* C6: the experience score is 15 when required_years = 0, and otherwise
\* 15, 11, 7, 3, 0 for a gap (required years - resume years) of <= 0, 1, 2,
\* 3, >= 4; for score_experience_match and for the `experience` value of
\* run_analysis.
C6_ExperienceScoreBands ==
    LET Expected(required, years) ==
            IF required = 0 THEN 15
            ELSE IF required - years <= 0 THEN 15
            ELSE IF required - years = 1 THEN 11
            ELSE IF required - years = 2 THEN 7
            ELSE IF required - years = 3 THEN 3
            ELSE 0
    IN  /\ Returned("calculate_ats_score") =>
            result.breakdown.experience.score =
                100 * Expected(extraction.required_years,
                               result.breakdown.experience.years_detected)
        /\ Analysed =>
            result.score_breakdown.experience =
                10 * Expected(extraction.required_years,
                              result.audit.seniority.experience_audit.total_years)

\* C7: the education score is 0 exactly when a degree is required and the
\* resume has no degree keyword, and 10 in every other case; for
\* score_education (requirement in associate, bachelor, master, phd) and
\* for the `education` value of run_analysis (check_education).
C7_EducationBinaryGate ==
    /\ Returned("calculate_ats_score") =>
        LET required == extraction.education_required
                            \in {"associate", "bachelor", "master", "phd"}
            has_kw   == resume.degree_words \cap ATS_DEGREE_KEYWORDS # {}
        IN  result.breakdown.education.score =
                IF required /\ ~has_kw THEN 0 ELSE 1000
    /\ Analysed =>
        LET required == jd.edu_required
            has_kw   == resume.degree_words \cap _DEGREE_KEYWORDS # {}
        IN  result.score_breakdown.education =
                IF required /\ ~has_kw THEN 0 ELSE 100

\* C8: for a resume whose experience section holds the single date range
\* "Jan 2020 - Dec 2023", years_from_dates is 4.
C8_Jan2020Dec2023IsFourYears ==
    (/\ Returned("calculate_total_experience")
     /\ CollectExp(resume.lines, FALSE, <<>>) # <<>>
     /\ exp_section(resume) = <<Closed47>>)
    => result.years_from_dates = 4

\* C9: calculate_total_experience reports total_years = max(years_from_text,
\* years_from_dates); has_mismatch holds exactly when both are > 0 and their
\* absolute difference exceeds the tolerance (1 when the stated years are
\* below 5, else 2); so 5 stated against 8 dated is flagged and no pair
\* differing by 1 is flagged.
C9_MismatchTolerance ==
    Returned("calculate_total_experience") =>
        LET t == result.years_from_text
            d == result.years_from_dates
            tolerance == IF t < 5 THEN 1 ELSE 2
        IN  /\ result.total_years = Max(t, d)
            /\ result.has_mismatch <=> (t > 0 /\ d > 0 /\ Abs(t - d) > tolerance)
            /\ (t = 5 /\ d = 8) => result.has_mismatch
            /\ Abs(t - d) = 1 => ~result.has_mismatch

\* C9 witness: 5 years stated, date ranges summing to 8 years, flagged.
C9_Witness ==
    /\ Returned("calculate_total_experience")
    /\ result.years_from_text = 5
    /\ result.years_from_dates = 8
    /\ result.has_mismatch

\* C10: build_seniority_audit returns "miss" whenever the JD's required
\* years are > 0 and the resume years are below them, whatever the level
\* ranks; otherwise the status is "hit" iff the resume level rank is >= the
\* JD level rank (Entry 1 < Mid 2 < Senior 3 < Management 4).
C10_YearsGateOverridesRank ==
    /\ _LEVEL_RANK("Entry/Graduate") = 1
    /\ _LEVEL_RANK("Mid-Level") = 2
    /\ _LEVEL_RANK("Senior") = 3
    /\ _LEVEL_RANK("Management/Architect") = 4
    /\ Returned("build_seniority_audit") =>
        LET required == detect_jd_level(jd).years
            years    == result.experience_audit.total_years
            jd_rank  == _LEVEL_RANK(detect_jd_level(jd).level)
            res_rank == _LEVEL_RANK(detect_resume_level(resume, today))
            gate     == required > 0 /\ years < required
        IN  /\ gate => result.status = "miss"
            /\ ~gate => (result.status = "hit" <=> res_rank >= jd_rank)

\* C10 witness: the gate on years triggers although the resume level rank
\* is at least the JD level rank, and the status is "miss".
C10_Witness ==
    /\ Returned("build_seniority_audit")
    /\ detect_jd_level(jd).years > 0
    /\ result.experience_audit.total_years < detect_jd_level(jd).years
    /\ _LEVEL_RANK(detect_resume_level(resume, today))
         >= _LEVEL_RANK(detect_jd_level(jd).level)
    /\ result.status = "miss"

\* C11: as run_analysis invokes it, keyword-stuffing detection flags a skill
\* exactly when its count is at least max(6, word_count / 120) and the skill
\* is not one of the top-3 central skills or occurs more than 12 times; the
\* stuffing check is a miss exactly when some skill is flagged.
C11_StuffingThresholdSix ==
    Analysed =>
        LET hits    == Skills(extraction, nlp).hits
            flagged == detect_keyword_stuffing(resume, hits, 5)
            count(skill) == resume.skill_freq[skill]
            adaptive == Max(6, resume.word_count \div 120)
        IN  /\ \A skill \in hits :
                 skill \in flagged <=>
                     /\ count(skill) >= adaptive
                     /\ (skill \notin primary_skills(hits) \/ count(skill) > 12)
            /\ result.audit.stuffing.status = "miss" <=> flagged # {}

\* Priority rank used to order suggestions.
priority_order(priority) ==
    CASE priority = "critical" -> 0
      [] priority = "high"     -> 1
      [] priority = "medium"   -> 2
      [] OTHER                 -> 3

\* C12: the suggestions of every run_analysis result are at most 5 and in
\* the order of their priority rank (critical, high, medium, low),
\* whatever the LLM returns and whichever fallback produced them.
C12_SuggestionsCappedAndOrdered ==
    Returned("run_analysis") =>
        LET sg == result.suggestions
        IN  /\ Len(sg) <= 5
            /\ \A i \in 1..Len(sg) : \A j \in 1..Len(sg) :
                   i < j => priority_order(sg[i].priority)
                                <= priority_order(sg[j].priority)

\* C13: whenever the suggestions prompt raises or returns no suggestions,
\* the suggestions of the analysis are exactly the fixed list of 3 generic
\* suggestions of generate_fallback_suggestions.
C13_UnavailableGivesGenericThree ==
    (Returned("run_analysis")
     /\ (llm.suggest.raises \/ llm.suggest.suggestions = <<>>))
    => /\ result.suggestions = generate_fallback_suggestions
       /\ Len(result.suggestions) = 3

\* The error result: score 0, tier "error", the nine score_breakdown keys
\* all 0, no hits, no missing skills, the 3 generic suggestions.
ErrorResult(r) ==
    /\ r.score = 0
    /\ r.tier = "error"
    /\ DOMAIN r.score_breakdown =
          {"keyword_overlap", "keyword_placement", "experience", "education",
           "formatting", "contact", "structure", "impact", "seniority"}
    /\ \A k \in DOMAIN r.score_breakdown : r.score_breakdown[k] = 0
    /\ r.recent_hits = {}
    /\ r.missing = {}
    /\ Len(r.suggestions) = 3
    /\ r.suggestions = generate_fallback_suggestions

C15_EmptyExtractionShortCircuits ==
    (Returned("run_analysis")
     /\ extraction.matched_skills = {} /\ extraction.missing_skills = {})
    => (result.score = 0 /\ result.tier = "error")

\* C16: every extraction extract_all returns, parsed from the LLM's reply
\* or produced by the fallback, holds each of its eight list fields as a
\* list (never absent, never null).
C16_ListFieldsAlwaysLists ==
    Returned("extract_all") =>
        \A f \in ListFields : result.lists[f] = "list"

\* The input rules a /score request violates.
ViolatedRules(res, jd_text) ==
    {rule \in {"resume_empty", "jd_empty", "resume_chars", "resume_words",
               "jd_chars", "jd_words", "resume_long", "jd_long"} :
        CASE rule = "resume_empty" -> res.blank
          [] rule = "jd_empty"     -> jd_text.blank
          [] rule = "resume_chars" -> res.chars < 100
          [] rule = "resume_words" -> res.word_count < 20
          [] rule = "jd_chars"     -> jd_text.chars < 50
          [] rule = "jd_words"     -> jd_text.word_count < 10
          [] rule = "resume_long"  -> res.chars > 50000
          [] rule = "jd_long"      -> jd_text.chars > 50000}

\* The reason string of each rule.
Reason(rule) ==
    CASE rule = "resume_empty" -> "Resume text cannot be empty."
      [] rule = "jd_empty"     -> "Job description cannot be empty."
      [] rule = "resume_chars" -> "Resume must be at least 100 characters."
      [] rule = "resume_words" -> "Resume must contain at least 20 words."
      [] rule = "jd_chars"     -> "Job description must be at least 50 characters."
      [] rule = "jd_words"     -> "Job description must contain at least 10 words."
      [] rule = "resume_long"  -> "Resume exceeds maximum length of 50000 characters."
      [] rule = "jd_long"      ->
             "Job description exceeds maximum length of 50000 characters."

\* C17: a /score request that violates an input rule is rejected (400) with
\* the reason string of a rule it violates, run_analysis is not invoked and
\* the usage row is neither read nor changed (nothing is called, the
\* database is left as it was); a request that violates no rule is never
\* rejected with a 400.
C17_ValidationBeforeAnyWork ==
    [][call = "get_score" =>
         LET rules == ViolatedRules(resume, jd)
         IN /\ rules # {} =>
                  /\ result'.status_code = 400
                  /\ \E rule \in rules : result'.detail = Reason(rule)
                  /\ invoked' = <<>>
                  /\ db' = db
            /\ rules = {} => result'.status_code # 400]_vars

\* C17 witness: a request of a known user without a usage row, whose resume
\* is long enough but has fewer than 20 words, was rejected for its words
\* and no usage row was created.
C17_Witness ==
    /\ Returned("get_score")
    /\ resume.chars >= 100 /\ resume.word_count < 20 /\ ~resume.blank
    /\ ViolatedRules(resume, jd) = {"resume_words"}
    /\ email # None /\ db.user_tier = "free"
    /\ result.status_code = 400
    /\ result.detail = "Resume must contain at least 20 words."
    /\ ~db.usage.exists
    /\ invoked = <<>>

\* The dates two calls can be made at.
Clock == Todays \cup {[y |-> 2025, m |-> 6]}

\* C18: run_analysis is deterministic whenever it is called: with the same
\* resume, the same JD and the same replies of the collaborators, a call
\* made at any other date returns the same result.
C18_SameResultAtAnyDate ==
    Returned("run_analysis") =>
        \A now \in Clock :
            run_analysis(resume, jd, extraction, nlp, now, llm.suggest, fault)
                = result

\* C19: a resume with no email, no phone and no location, analysed against
\* a JD that requires a degree the resume lacks, with 0 matched skills of 5
\* required, gets education 0, contact at most 1 point, keyword overlap 0
\* and the tier "poor", whatever the other inputs are.  (Components are
\* held in tenths of a point.)
C19_NoContactNoDegreeNoSkillsIsPoor ==
    (/\ Analysed
     /\ ~resume.email /\ ~resume.phone /\ resume.location = "none"
     /\ jd.edu_required /\ resume.degree_words = {}
     /\ extraction.matched_skills = {}
     /\ Cardinality(extraction.jd_required_skills) = 5)
    => /\ result.score_breakdown.education = 0
       /\ result.score_breakdown.contact <= 10
       /\ result.score_breakdown.keyword_overlap = 0
       /\ result.tier = "poor"

\* C20: the resume level follows the years whenever they are > 0 (>= 8
\* Management, >= 5 Senior, 2 < y < 5 Mid, 0 < y <= 2 Entry); with 0 years
\* at least 2 entry keywords give Entry, then any management keyword gives
\* Management, then any senior keyword or 3 leadership terms give Senior,
\* else Mid.
C20_LevelByYearsThenKeywords ==
    Analysed =>
        LET years == calculate_total_experience(resume, today).total_years
        IN  result.seniority_match =
              IF years >= 8 THEN "Management/Architect"
              ELSE IF years >= 5 THEN "Senior"
              ELSE IF 2 < years /\ years < 5 THEN "Mid-Level"
              ELSE IF 0 < years /\ years <= 2 THEN "Entry/Graduate"
              ELSE IF resume.entry_kw >= 2 THEN "Entry/Graduate"
              ELSE IF resume.mgmt_kw >= 1 THEN "Management/Architect"
              ELSE IF resume.senior_kw >= 1 \/ resume.leadership >= 3 THEN "Senior"
              ELSE "Mid-Level"

\* C21: score_seniority_match gives 5 when the resume level equals the JD
\* level, 4 when the resume is exactly one level above, 2 when it is
\* exactly one level below, 1 otherwise, over entry < mid < senior <
\* management (resume senior against JD management is one below: 2).
C21_SeniorityScoreByLevelDistance ==
    Returned("calculate_ats_score") =>
        LET Rank(level) == CASE level = "entry"      -> 1
                             [] level = "mid"        -> 2
                             [] level = "senior"     -> 3
                             [] level = "management" -> 4
            sm == result.breakdown.seniority_match
            d  == Rank(sm.resume_level) - Rank(sm.jd_level)
        IN  sm.score = IF d = 0 THEN 500
                       ELSE IF d = 1 THEN 400
                       ELSE IF d = 0 - 1 THEN 200
                       ELSE 100

\* C22: in generate_ats_suggestions the summary-placement suggestion is
\* produced exactly when summary_hits < 2, the experience-placement
\* suggestion exactly when experience_hits < 4 (both when both hold,
\* whatever the placement score), and the low-metric suggestion exactly
\* when fewer than 3 metrics were found.
C22_RulesFireIndependently ==
    Returned("generate_ats_suggestions") =>
        LET breakdown == calculate_ats_score(resume, extraction, today).breakdown
            Has(area) == \E i \in 1..Len(result) : result[i].area = area
        IN  /\ Has("Professional Summary")
                  <=> breakdown.keyword_placement.summary_hits < 2
            /\ Has("Experience Bullets")
                  <=> breakdown.keyword_placement.experience_hits < 4
            /\ Has("Quantified Achievements")
                  <=> breakdown.formatting.metrics_found < 3

\* The skills written in the sections of a resume whose heading holds one
\* of the keywords: a line belongs to the section of the last heading line
\* (a short line with a heading keyword) at or before it.
InSections(lines, keywords) ==
    LET IsHeading(k) == lines[k].short /\ lines[k].words # {}
        HeadingOf(i) == FirstIn({k \in 1..i : IsHeading(k)
                                    /\ \A l \in (k + 1)..i : ~IsHeading(l)}, 1, i)
    IN  UNION {lines[i].skills :
                  i \in {k \in 1..Len(lines) :
                            /\ HeadingOf(k) # 0
                            /\ AnyIn(lines[HeadingOf(k)], keywords)}}

\* C23: the placement check of run_analysis is a hit iff at least 3 of the
\* skills occur in the summary section or at least 5 in the experience
\* section, and a skill that occurs only in the Skills section is counted
\* in neither figure, for every order of the sections.
C23_PlacementCountsSummaryAndExperienceOnly ==
    Analysed =>
        LET hits       == Skills(extraction, nlp).hits
            in_summary == hits \cap InSections(resume.lines, SUMMARY_START)
            in_exp     == hits \cap InSections(resume.lines, EXP_START)
            placement  == result.audit.placement
        IN  /\ placement.status = "hit"
                  <=> (Cardinality(in_summary) >= 3 \/ Cardinality(in_exp) >= 5)
            /\ placement.summary_hits <= Cardinality(in_summary \cup in_exp)
            /\ placement.exp_hits <= Cardinality(in_summary \cup in_exp)

\* C24: score_keyword_placement and check_keyword_placement report the
\* same summary hits and the same experience hits for every resume and
\* every skill set.
C24_ScorerAndDiagnosticAgreeOnHits ==
    Returned("calculate_ats_score") =>
        LET scored  == result.breakdown.keyword_placement
            checked == check_keyword_placement(resume, extraction.matched_skills)
        IN  /\ scored.summary_hits = checked.summary_hits
            /\ scored.experience_hits = checked.exp_hits

\* The months between the two dates of a written range, read in its own
\* form (a bare year is read with the same month at both ends).
WrittenMonths(r, now) ==
    IF r.sentinel
    THEN (now.y - r.sy) * 12 + (IF r.form = "year" THEN 0 ELSE now.m - r.sm)
    ELSE (r.ey - r.sy) * 12 + (r.em - r.sm)

\* The months of every distinct written range, each counted once, ranges
\* outside [2, 600] left out.
RECURSIVE OnceMonths(_, _, _)
OnceMonths(rs, seen, now) ==
    IF rs = <<>> THEN 0
    ELSE LET r == Head(rs)
             months == WrittenMonths(r, now)
         IN  (IF r \notin seen /\ 2 <= months /\ months <= 600 THEN months ELSE 0)
             + OnceMonths(Tail(rs), seen \cup {r}, now)

\* C25: in _parse_years_from_dates each date range written in the
\* experience section adds its months to total_months exactly once, also
\* when several patterns match its text; ranges whose months fall outside
\* [2, 600] add nothing.
C25_EachRangeCountedOnce ==
    Returned("calculate_total_experience") =>
        LET parsed == _parse_years_from_dates(resume, today)
        IN  /\ Len(parsed.ranges) <= Len(exp_section(resume))
            /\ parsed.total_months = OnceMonths(exp_section(resume), {}, today)
            /\ result.years_from_dates = parsed.total_months \div 12

\* C26: for every user and month the stored analyses_count never exceeds
\* the analysis limit of the user's tier, under any interleaving of
\* concurrent /score and /api/usage/increment requests of that user.
C26_CountNeverExceedsLimit ==
    call = "serve" => db.usage.analyses_count <= limit_of(db)

\* C27: a /score request adds one to the user's analyses_count only after
\* an analysis that completed: when the request is answered with 400 or
\* 403, or run_analysis returned its tier "error" result, the count is the
\* one the request found.
C27_CountedOnlyAfterCompletedAnalysis ==
    [][(call = "get_score" /\ pc = "called" /\ pc' = "returned")
        => ((result'.status_code # 200 \/ result'.results[1].tier = "error")
             => db'.usage.analyses_count = db.usage.analyses_count)]_vars

\* C28: within one run_analysis result the seniority audit and the
\* experience score agree on the required years: whenever the audit reports
\* the years hard gate, the experience component of score_breakdown is
\* strictly below its ceiling.
C28_HardGateLowersExperienceScore ==
    (Analysed /\ result.audit.seniority.msg = "Hard Gate Risk")
        => result.score_breakdown.experience < W_EXPERIENCE * 10

\* Passes of the call that scored strictly higher than the best so far.
Improving == {i \in DOMAIN locals.passes :
                 locals.passes[i].scored
                 /\ locals.passes[i].score > locals.passes[i].before}

\* C29: optimize_resume never returns a result worse than its input:
\* new_score >= original_score and improvement >= 0; optimized_text is the
\* original text unless some pass scored strictly higher than the best so
\* far, and then it is the text of the last such pass and new_score is that
\* pass's score (to one decimal); target_reached holds iff new_score >= 80;
\* a pass whose rewrite or scoring failed changes neither text nor score.
C29_NeverWorseThanInput ==
    Returned("optimize_resume") =>
        /\ result.new_score >= result.original_score
        /\ result.improvement >= 0
        /\ IF Improving = {}
           THEN /\ result.optimized_text = 0
                /\ result.new_score = result.original_score
           ELSE LET last == CHOOSE i \in Improving : \A j \in Improving : j <= i
                IN  /\ result.optimized_text = locals.passes[last].text
                    /\ result.new_score = round0(locals.passes[last].score, 10)
        /\ result.target_reached <=> result.new_score >= 800

\* The passes of a call are at most two, each but the last scored strictly
\* higher than the best before it without reaching the target, none starts
\* at or above the target, and the returned iterations counts them.
BoundedPasses ==
    call = "optimize_resume" =>
        /\ locals.iterations \in 0..2
        /\ Len(locals.passes) <= locals.iterations
        /\ \A i \in DOMAIN locals.passes :
              /\ locals.passes[i].before < TARGET
              /\ i < locals.iterations =>
                    /\ locals.passes[i].scored
                    /\ locals.passes[i].score > locals.passes[i].before
                    /\ locals.passes[i].score < TARGET
        /\ locals.original_score >= TARGET => locals.iterations = 0
        /\ pc = "returned" =>
              /\ result.iterations = Len(locals.passes)
              /\ result.iterations \in {0, 1, 2}

\* C30: optimize_resume always terminates, after at most 2 rewrite passes:
\* no pass when the original score is already >= 80; the loop stops as soon
\* as the best score reaches 80, a pass fails or a pass does not strictly
\* improve the best score; iterations is 0, 1 or 2 and equals the number of
\* rewrite attempts started.
C30_TerminatesWithinTwoPasses ==
    []BoundedPasses /\ <>(pc = "returned")

\* Two passes were made, the first of which improved the score.
C30_Witness ==
    /\ Returned("optimize_resume")
    /\ result.iterations = 2
    /\ Len(locals.passes) = 2
    /\ locals.passes[1].score > locals.original_score

====
